---- MODULE Spec2Model ----
\* A model of the Ico/Imager image service of deuill/mash: the local file
\* cache (service/imager/filecache.go), the S3-backed Source and the
\* Process request handler (service/ico/ico.go).
EXTENDS Integers, Sequences, FiniteSets, TLC

\* ------------------------------------------------------------------------
\* Bounds and input domains
\* ------------------------------------------------------------------------

\* A path is the tuple of its segments, and a segment is the tuple of its
\* comma-separated fields, a field being the tuple of its parts around "=":
\* "/d/width=1/img" is <<Seg("d"), <<<<"width", "1">>>>, Seg("img")>>.
Seg(s) == <<<<s>>>>

\* The image a request names and the parameter strings of requests.
ImagePath == <<Seg("d"), Seg("img")>>
ValidParams == <<<<"width", "1">>>>
MalformedParams == <<<<"width">>>>
LowQuality == <<<<"quality", "0">>>>
HighQuality == <<<<"quality", "101">>>>

\* strconv.ParseInt on the tokens of the model.
Numerals == {"-1", "0", "1", "2", "100", "101", "200", "400", "500"}

IntValue(token) ==
    CASE token = "-1" -> 0 - 1
      [] token = "0" -> 0
      [] token = "1" -> 1
      [] token = "2" -> 2
      [] token = "100" -> 100
      [] token = "101" -> 101
      [] token = "200" -> 200
      [] token = "400" -> 400
      [] token = "500" -> 500

\* Region and bucket names of a request, and the names aws.Regions knows.
Regions == {"r1"}
DefaultRegion == "r1"
DefaultBucket == "b1"

\* Cache directories (the `name` argument of NewFileCache).
Paths == {<<"tmp", "mash/ico", "r1", "b1">>}

\* File names the caller of the FileCache API uses as keys, and all keys.
CacheKeys == {<<Seg("a")>>, <<Seg("b")>>, <<Seg("c")>>}

\* path.Clean for a rooted path, segment by segment: empty segments and "."
\* are dropped, ".." takes the segment before it away (nothing at the root).
RECURSIVE CleanFrom(_, _)
CleanFrom(done, rest) ==
    IF rest = <<>> THEN done
    ELSE IF Head(rest) \in {Seg(""), Seg(".")}
    THEN CleanFrom(done, Tail(rest))
    ELSE IF Head(rest) = Seg("..")
    THEN CleanFrom(SubSeq(done, 1, Len(done) - 1), Tail(rest))
    ELSE CleanFrom(Append(done, Head(rest)), Tail(rest))

Clean(p) == CleanFrom(<<>>, p)

\* path.Split: the segments up to the last slash, and what follows it.
Dir(image) == SubSeq(image, 1, Len(image) - 1)
File(image) == image[Len(image)]

\* dirname/params/basename, the segments put one after the other.
Inserted(image, params) == Dir(image) \o <<params>> \o <<File(image)>>

\* procPath: path.Join(dir, params, file), which cleans what it has joined.
ProcPath(image, params) == Clean(Inserted(image, params))
Names == {ImagePath, ProcPath(ImagePath, ValidParams),
          ProcPath(ImagePath, MalformedParams),
          ProcPath(ImagePath, LowQuality), ProcPath(ImagePath, HighQuality)}

\* The object a Put uploads first: name + ".tmp".
Tmp(name) == name \o <<Seg(".tmp")>>

\* The derived key of a request with ValidParams for the image "d/img.tmp":
\* the name under which a Put of the derived key of "d/img" uploads first.
TmpName == Tmp(ProcPath(ImagePath, ValidParams))
Keys == CacheKeys \cup Names \cup {TmpName}

\* Byte slices handed to Add; a byte is a small number.
Payloads == {<<1>>, <<2>>, <<1, 2, 3>>}

\* Quota values passed to NewFileCache (0 means no limit).
Quotas == {0, 3, 5}

\* Markers that are no byte slice: a nil interface value, a missing file.
Nil == <<-1>>
NoFile == <<-2>>

\* ------------------------------------------------------------------------
\* FileCache: container/list helpers
\* ------------------------------------------------------------------------

\* A list element's value (type file) and the absent element.
NoEl == [key |-> <<>>, size |-> 0]

file(key, data) == [key |-> key, size |-> Len(data)]

RECURSIVE SeqWithout(_, _)
SeqWithout(s, key) ==
    IF s = <<>> THEN <<>>
    ELSE IF Head(s).key = key THEN Tail(s)
    ELSE <<Head(s)>> \o SeqWithout(Tail(s), key)

PushFront(order, el) == <<el>> \o order

ListRemove(order, el) == SeqWithout(order, el.key)

MoveToFront(order, el) == <<el>> \o SeqWithout(order, el.key)

Back(order) == IF order = <<>> THEN NoEl ELSE order[Len(order)]

\* ------------------------------------------------------------------------
\* FileCache: state
\* ------------------------------------------------------------------------

VARIABLES
    caches,     \* the package map `caches`: path -> FileCache (id 0: no entry)
    disk,       \* the files under each cache directory: path -> key -> bytes
    nextId,     \* the next FileCache allocation
    cret,       \* the last FileCache call of the caller and what it returned
    created,    \* history: how many FileCache values were allocated per path
    touched,    \* history: present keys by last accepted Add or successful Get
    called      \* history: present keys by last Add call or successful Get

cacheVars == <<caches, disk, nextId, cret, created, touched, called>>

VARIABLES
    bucket,     \* the objects of the S3 bucket: object key -> bytes
    attached,   \* whether the Source has a cache (Source.cache # nil)
    sources,    \* the map Ico.sources: region/bucket key -> Source (0: none)
    made,       \* history: the Sources NewSource has returned per key
    cfgQuota,   \* the configured cache quota (Ico.Quota)
    thr,        \* the goroutines: where each is and its local variables
    calls       \* how many calls or requests have been started

svcVars == <<bucket, attached, sources, made, cfgQuota, thr, calls>>

VARIABLES
    request,    \* two requests: the params and image path of each
    procPath    \* the derived key of each, once Process has computed it

pathVars == <<request, procPath>>

VARIABLES
    paramStrings,   \* two parameter strings handed to pipeline.New
    pipelines,      \* what New has returned for each of them
    picture,        \* the image handed to Process of the first pipeline
    processed       \* what Process has made of it

pipeVars == <<paramStrings, pipelines, picture, processed>>

vars == <<caches, disk, nextId, cret, created, touched, called,
          bucket, attached, sources, made, cfgQuota, thr, calls,
          request, procPath, paramStrings, pipelines, picture, processed>>

\* The zero FileCache: what the map lookup yields for a missing path.
NoCache ==
    [id |-> 0, quota |-> 0, usage |-> 0, order |-> <<>>,
     cache |-> [k \in Keys |-> NoEl], locked |-> FALSE]

EmptyDir == [k \in Keys |-> NoFile]

exists(name) == caches[name].id # 0

Indexed(f, key) == f.cache[key] # NoEl

\* A call's outcome: the cache, its directory, whether the call is blocked
\* on the cache's lock (it then never returns), and the value returned.
Outcome(f, d, blocked, val) == [f |-> f, d |-> d, blocked |-> blocked, val |-> val]

\* ------------------------------------------------------------------------
\* FileCache: operations
\* ------------------------------------------------------------------------

\* What a write that fails part-way leaves in the file: data cut short.
Truncated(data) == SubSeq(data, 1, Len(data) - 1)

\* What ioutil.WriteFile can do: write all of data, or fail leaving no file
\* or a truncated one.
WriteResults(data) ==
    {[ok |-> TRUE, content |-> data],
     [ok |-> FALSE, content |-> NoFile],
     [ok |-> FALSE, content |-> Truncated(data)]}

\* removeElement that forgets to subtract the size from usage.
removeElementKeepsUsage(f, d, el) ==
    Outcome([f EXCEPT !.cache[el.key] = NoEl,
                      !.order = ListRemove(@, el)],
            [d EXCEPT ![el.key] = NoFile],
            FALSE, Nil)

\* removeElement that leaves the entry of the index behind.
removeElementKeepsIndex(f, d, el) ==
    Outcome([f EXCEPT !.usage = @ - el.size,
                      !.order = ListRemove(@, el)],
            [d EXCEPT ![el.key] = NoFile],
            FALSE, Nil)

removeElement(f, d, el) ==
    Outcome([f EXCEPT !.usage = @ - el.size,
                      !.cache[el.key] = NoEl,
                      !.order = ListRemove(@, el)],
            [d EXCEPT ![el.key] = NoFile],
            FALSE, Nil)

\* f.Lock() of an already locked mutex never returns.
RemoveOldest(f, d) ==
    IF f.locked THEN Outcome(f, d, TRUE, Nil)
    ELSE IF Back(f.order) # NoEl THEN removeElement(f, d, Back(f.order))
    ELSE Outcome(f, d, FALSE, Nil)

\* Remove that takes the tail of the list instead of the entry of the key.
RemoveTail(f, d, key) ==
    IF f.locked THEN Outcome(f, d, TRUE, Nil)
    ELSE IF Indexed(f, key) THEN removeElement(f, d, Back(f.order))
    ELSE Outcome(f, d, FALSE, Nil)

Remove(f, d, key) ==
    IF f.locked THEN Outcome(f, d, TRUE, Nil)
    ELSE IF Indexed(f, key) THEN removeElement(f, d, f.cache[key])
    ELSE Outcome(f, d, FALSE, Nil)

\* The eviction loop of Add; f is locked by Add while it runs.
RECURSIVE EvictLoop(_, _, _)
EvictLoop(f, d, size) ==
    IF f.quota > 0 /\ f.usage + size > f.quota
    THEN LET r == RemoveOldest(f, d)
         IN  IF r.blocked THEN r
             ELSE EvictLoop([r.f EXCEPT !.locked = TRUE], r.d, size)
    ELSE Outcome(f, d, FALSE, Nil)

\* An Add that stores data of any size.
NeverRefused(f, data) == FALSE

\* Add's test of the size of data against the quota.
Refused(f, data) == f.quota > 0 /\ Len(data) >= f.quota

\* An Add that writes data over the file of an entry it finds.
PromoteAndRewrite(f, d, el, data) ==
    Outcome([f EXCEPT !.order = MoveToFront(@, el)],
            [d EXCEPT ![el.key] = data], FALSE, Nil)

\* Add for a key that is in the index: the entry goes to the front.
Promote(f, d, el, data) ==
    Outcome([f EXCEPT !.order = MoveToFront(@, el)], d, FALSE, Nil)

Add(f, d, key, data, mkok, w) ==
    IF Refused(f, data) THEN Outcome(f, d, FALSE, Nil)
    ELSE IF f.locked THEN Outcome(f, d, TRUE, Nil)
    ELSE IF Indexed(f, key) THEN Promote(f, d, f.cache[key], data)
    ELSE IF ~mkok THEN Outcome(f, d, FALSE, Nil)
    ELSE LET el == file(key, data)
             pushed == [f EXCEPT !.order = PushFront(@, el), !.locked = TRUE]
             ev == EvictLoop(pushed, d, el.size)
         IN  IF ev.blocked THEN ev
             ELSE IF ~w.ok
             THEN Outcome([ev.f EXCEPT !.order = ListRemove(@, el),
                                       !.locked = FALSE],
                          [ev.d EXCEPT ![key] = w.content], FALSE, Nil)
             ELSE Outcome([ev.f EXCEPT !.usage = @ + el.size,
                                       !.cache[key] = el,
                                       !.locked = FALSE],
                          [ev.d EXCEPT ![key] = w.content], FALSE, Nil)

\* Get that returns the bytes short of the last one.
GetCutShort(f, d, key, rok) ==
    IF f.locked THEN Outcome(f, d, TRUE, Nil)
    ELSE IF Indexed(f, key) /\ rok /\ d[key] # NoFile
    THEN Outcome([f EXCEPT !.order = MoveToFront(@, f.cache[key])],
                 d, FALSE, Truncated(d[key]))
    ELSE Outcome(f, d, FALSE, Nil)

\* Get that returns the bytes without promoting the entry.
GetWithoutPromotion(f, d, key, rok) ==
    IF f.locked THEN Outcome(f, d, TRUE, Nil)
    ELSE IF Indexed(f, key) /\ rok /\ d[key] # NoFile
    THEN Outcome(f, d, FALSE, d[key])
    ELSE Outcome(f, d, FALSE, Nil)

Get(f, d, key, rok) ==
    IF f.locked THEN Outcome(f, d, TRUE, Nil)
    ELSE IF Indexed(f, key)
    THEN IF rok /\ d[key] # NoFile
         THEN Outcome([f EXCEPT !.order = MoveToFront(@, f.cache[key])],
                      d, FALSE, d[key])
         ELSE Outcome(f, d, FALSE, Nil)
    ELSE Outcome(f, d, FALSE, Nil)

\* NewFileCache that takes the new quota whatever the old one was.
NewQuotaOverwrites(old, quota) == quota

\* NewFileCache that compares the quotas without treating 0 as no limit.
NewQuotaPlainMax(old, quota) ==
    IF quota = 0 \/ old < quota THEN quota ELSE old

\* The quota of an existing cache after NewFileCache(name, quota).
NewQuota(old, quota) ==
    IF quota = 0 \/ (old > 0 /\ old < quota) THEN quota ELSE old

\* ------------------------------------------------------------------------
\* History of touches, kept beside the program state for the LRU claims
\* ------------------------------------------------------------------------

RECURSIVE KeysWithout(_, _)
KeysWithout(s, key) ==
    IF s = <<>> THEN <<>>
    ELSE IF Head(s) = key THEN KeysWithout(Tail(s), key)
    ELSE <<Head(s)>> \o KeysWithout(Tail(s), key)

RECURSIVE Present(_, _)
Present(s, f) ==
    IF s = <<>> THEN <<>>
    ELSE IF Indexed(f, Head(s)) THEN <<Head(s)>> \o Present(Tail(s), f)
    ELSE Present(Tail(s), f)

\* The history after a call that left the cache as f: key goes first when the
\* call touched it, and keys that are no longer indexed are dropped.
Touch(s, key, touches, f) ==
    Present(IF touches THEN <<key>> \o KeysWithout(s, key) ELSE s, f)

\* ------------------------------------------------------------------------
\* FileCache: the calls of one caller
\* ------------------------------------------------------------------------

\* The record of a call: its arguments, the results of the file system calls
\* it made (io), what the cache was when it was made (pre), the value it
\* returned and whether it is blocked.
Pre(f, key) ==
    [quota |-> f.quota, usage |-> f.usage,
     had |-> key \in Keys /\ Indexed(f, key)]

Call(op, name, key, data, quota, io, pre, val, blocked) ==
    [op |-> op, path |-> name, key |-> key, data |-> data, quota |-> quota,
     io |-> io, pre |-> pre, val |-> val, blocked |-> blocked]

CacheInit ==
    /\ caches = [p \in Paths |-> NoCache]
    /\ disk \in [Paths -> {EmptyDir, [EmptyDir EXCEPT ![<<Seg("a")>>] = <<1>>]}]
    /\ nextId = 1
    /\ cret = Call("init", <<>>, <<>>, Nil, 0, TRUE, Pre(NoCache, <<>>), Nil, FALSE)
    /\ created = [p \in Paths |-> 0]
    /\ touched = [p \in Paths |-> <<>>]
    /\ called = [p \in Paths |-> <<>>]

\* NewFileCache(name, quota): the new values of caches, disk and nextId and
\* the cache returned (its identity, 0 with an error); rmok and mkok are the
\* results of os.RemoveAll and os.MkdirAll.
NewFileCache(name, quota, rmok, mkok) ==
    LET result(cs, dk, nid, id) ==
            [caches |-> cs, disk |-> dk, nextId |-> nid, id |-> id]
    IN  IF exists(name)
        THEN result([caches EXCEPT ![name].quota = NewQuota(@, quota)],
                    disk, nextId, caches[name].id)
        ELSE IF ~rmok THEN result(caches, disk, nextId, 0)
        ELSE IF ~mkok
        THEN result(caches, [disk EXCEPT ![name] = EmptyDir], nextId, 0)
        ELSE result([caches EXCEPT ![name] =
                        [NoCache EXCEPT !.id = nextId, !.quota = quota]],
                    [disk EXCEPT ![name] = EmptyDir], nextId + 1, nextId)

NewFileCacheCall(name, quota, rmok, mkok) ==
    LET r == NewFileCache(name, quota, rmok, mkok)
    IN  /\ caches' = r.caches
        /\ disk' = r.disk
        /\ nextId' = r.nextId
        /\ created' = [created EXCEPT ![name] = @ + (r.nextId - nextId)]
        /\ cret' = Call("NewFileCache", name, <<>>, Nil, quota, r.id # 0,
                        Pre(caches[name], <<>>), <<r.id>>, FALSE)
        /\ UNCHANGED <<touched, called>>

\* The effect of a method call with outcome r on the cache under name.
Returns(op, name, key, data, io, r, accepted, attempted) ==
    /\ caches' = [caches EXCEPT ![name] = r.f]
    /\ disk' = [disk EXCEPT ![name] = r.d]
    /\ cret' = Call(op, name, key, data, 0, io, Pre(caches[name], key),
                    r.val, r.blocked)
    /\ touched' = [touched EXCEPT ![name] = Touch(@, key, accepted, r.f)]
    /\ called' = [called EXCEPT ![name] = Touch(@, key, attempted, r.f)]
    /\ UNCHANGED <<nextId, created>>

AddCall(name, key, data, mkok, w) ==
    LET f == caches[name]
        r == Add(f, disk[name], key, data, mkok, w)
    IN  /\ exists(name)
        /\ Returns("Add", name, key, data, mkok /\ w.ok, r,
                   ~r.blocked /\ ~Refused(f, data), ~r.blocked)

GetCall(name, key, rok) ==
    LET r == Get(caches[name], disk[name], key, rok)
    IN  /\ exists(name)
        /\ Returns("Get", name, key, Nil, rok, r, r.val # Nil, r.val # Nil)

RemoveCall(name, key) ==
    LET r == Remove(caches[name], disk[name], key)
    IN  /\ exists(name)
        /\ Returns("Remove", name, key, Nil, TRUE, r, FALSE, FALSE)

RemoveOldestCall(name) ==
    LET r == RemoveOldest(caches[name], disk[name])
    IN  /\ exists(name)
        /\ Returns("RemoveOldest", name, Back(caches[name].order).key, Nil, TRUE,
                   r, FALSE, FALSE)

\* One caller issues FileCache calls one after the other; a call that is
\* blocked never returns, and the caller issues nothing after it.
Ready == ~cret.blocked

CacheNewStep ==
    /\ Ready
    /\ UNCHANGED <<svcVars, pathVars, pipeVars>>
    /\ \E name \in Paths, quota \in Quotas, rmok \in BOOLEAN :
          \E mkok \in (IF rmok THEN BOOLEAN ELSE {FALSE}) :
              NewFileCacheCall(name, quota, rmok, mkok)

CacheAddStep ==
    /\ Ready
    /\ UNCHANGED <<svcVars, pathVars, pipeVars>>
    /\ \E name \in Paths, key \in CacheKeys, data \in Payloads, mkok \in BOOLEAN :
          \E w \in (IF mkok THEN WriteResults(data)
                               ELSE {[ok |-> FALSE, content |-> NoFile]}) :
              AddCall(name, key, data, mkok, w)

CacheGetStep ==
    /\ Ready
    /\ UNCHANGED <<svcVars, pathVars, pipeVars>>
    /\ \E name \in Paths, key \in CacheKeys, rok \in BOOLEAN : GetCall(name, key, rok)

CacheRemoveStep ==
    /\ Ready
    /\ UNCHANGED <<svcVars, pathVars, pipeVars>>
    /\ \E name \in Paths, key \in CacheKeys : RemoveCall(name, key)

CacheRemoveOldestStep ==
    /\ Ready
    /\ UNCHANGED <<svcVars, pathVars, pipeVars>>
    /\ \E name \in Paths : RemoveOldestCall(name)

CacheNext ==
    \/ CacheNewStep
    \/ CacheAddStep
    \/ CacheGetStep
    \/ CacheRemoveStep
    \/ CacheRemoveOldestStep

\* ------------------------------------------------------------------------
\* Source: the bucket and the goroutines that use it
\* ------------------------------------------------------------------------

\* Image files: two magic bytes (FF D8) and a body.
Original == <<255, 216, 1>>
Images == {<<255, 216, 1>>, <<255, 216, 2>>}

ObjectKeys == Names \cup {Tmp(n) : n \in Names}

\* An error result, and the nil error.
Err == <<-3>>
Ok == <<0>>

\* The number of calls the callers of the Source API make between them, and
\* the number of requests the service receives.
MaxCalls == 2

\* Goroutines: the callers of the Source API, or for the k-th request the
\* goroutine k of its handler and the goroutine its `go src.Put(...)` starts.
Handlers == 1..MaxCalls
Putter(k) == MaxCalls + k
Threads == Handlers \cup {Putter(k) : k \in 1..MaxCalls}

\* The cache directory of the source of a region and bucket (InitCache).
CachePath(region, bkt) == <<"tmp", "mash/ico", region, bkt>>
SourcePath == CachePath(DefaultRegion, DefaultBucket)

\* The nil error, as the record an error of SetOption is.
NoError == [kind |-> "", field |-> "", min |-> 0, max |-> 0, value |-> ""]

NoThread ==
    [pc |-> "unused", cont |-> "unused", op |-> "-", name |-> <<>>,
     data |-> Nil, res |-> Nil, prev |-> Nil, cgot |-> Nil,
     contacted |-> FALSE, uploaded |-> FALSE, added |-> FALSE,
     shared |-> FALSE, fault |-> FALSE,
     req |-> 0, method |-> "-", region |-> "-", bkt |-> "-",
     params |-> <<>>, image |-> <<>>, src |-> 0, img |-> Nil, resp |-> Nil,
     hit |-> FALSE, parsed |-> FALSE, fetched |-> FALSE, ran |-> FALSE,
     put |-> "none", later |-> FALSE, list |-> <<>>, todo |-> <<>>,
     error |-> NoError, rlocked |-> FALSE, raced |-> FALSE]

\* A call returns val to the point the goroutine called it from.
Return(th, val) == [th EXCEPT !.pc = th.cont, !.res = val]

\* No request whose derived key is looked at.
NoRequest == [params |-> <<>>, image |-> <<>>]

\* procPath before Process has assigned it, and with the key assigned.
Unset == [set |-> FALSE, key |-> <<>>]
Assigned(key) == [set |-> TRUE, key |-> key]

PathIdle ==
    /\ request = [k \in {1, 2} |-> NoRequest]
    /\ procPath = [k \in {1, 2} |-> Unset]

\* No pipeline built and no image processed.
NoPipeline == [built |-> FALSE, err |-> FALSE, operations |-> <<>>]
NoPicture == [type |-> "-", w |-> 0, h |-> 0, encoder |-> "-"]
NoArea ==
    [issued |-> FALSE, x |-> 0, y |-> 0, w |-> 0, h |-> 0, W |-> 0, H |-> 0]
NoResult ==
    [done |-> FALSE, err |-> FALSE, image |-> NoPicture, steps |-> <<>>,
     area |-> NoArea]

PipeIdle ==
    /\ paramStrings = [k \in {1, 2} |-> <<>>]
    /\ pipelines = [k \in {1, 2} |-> NoPipeline]
    /\ picture = NoPicture
    /\ processed = NoResult

ServiceIdle ==
    /\ bucket = [k \in ObjectKeys |-> NoFile]
    /\ attached = FALSE
    /\ sources = 0
    /\ made = {}
    /\ cfgQuota = 0
    /\ thr = [t \in Threads |-> NoThread]
    /\ calls = 0

\* Source.Get, first part: the lookup in the local cache.
GetCache(t) ==
    LET th == thr[t]
    IN  /\ th.pc = "Get.cache"
        /\ UNCHANGED <<nextId, cret, created, touched, called,
                       bucket, attached, sources, made, cfgQuota, calls>>
        /\ IF ~attached
           THEN /\ thr' = [thr EXCEPT ![t] = [th EXCEPT !.pc = "Get.bucket"]]
                /\ UNCHANGED <<caches, disk>>
           ELSE \E rok \in BOOLEAN :
                  LET r == Get(caches[SourcePath], disk[SourcePath], th.name, rok)
                  IN  /\ caches' = [caches EXCEPT ![SourcePath] = r.f]
                      /\ disk' = [disk EXCEPT ![SourcePath] = r.d]
                      /\ thr' = [thr EXCEPT ![t] =
                            IF r.blocked THEN [th EXCEPT !.pc = "blocked"]
                            ELSE IF r.val # Nil
                            THEN Return([th EXCEPT !.cgot = r.val], r.val)
                            ELSE [th EXCEPT !.pc = "Get.bucket"]]

\* Source.Get, second part: s.bucket.Get(name); ok is whether the store
\* answers.
GetBucket(t) ==
    LET th == thr[t]
        got == bucket[th.name]
    IN  /\ th.pc = "Get.bucket"
        /\ UNCHANGED <<cacheVars, bucket, attached, sources, made, cfgQuota, calls>>
        /\ \E ok \in BOOLEAN :
             thr' = [thr EXCEPT ![t] =
                IF ~ok \/ got = NoFile
                THEN Return([th EXCEPT !.contacted = TRUE], Err)
                ELSE IF attached
                THEN [th EXCEPT !.contacted = TRUE, !.data = got, !.pc = "Get.add"]
                ELSE Return([th EXCEPT !.contacted = TRUE, !.data = got], got)]

\* s.cache.Add(name, data) as Source.Get and Source.Put call it: the thread
\* then returns the data to its caller (Get) or goes on to the upload (Put),
\* or is blocked inside Add. The file is written whole or not at all.
SourceAdd(t, returns) ==
    LET th == thr[t]
    IN  \E w \in {[ok |-> TRUE, content |-> th.data],
                   [ok |-> FALSE, content |-> NoFile]} :
          LET r == Add(caches[SourcePath], disk[SourcePath],
                       th.name, th.data, TRUE, w)
          IN  /\ caches' = [caches EXCEPT ![SourcePath] = r.f]
              /\ disk' = [disk EXCEPT ![SourcePath] = r.d]
              /\ thr' = [thr EXCEPT ![t] =
                    IF r.blocked THEN [th EXCEPT !.pc = "blocked"]
                    ELSE IF returns
                    THEN Return([th EXCEPT !.added = TRUE], th.data)
                    ELSE [th EXCEPT !.added = TRUE, !.pc = "Put.upload"]]

\* Source.Get, third part: cache the bytes read from the bucket, return them.
GetAdd(t) ==
    /\ thr[t].pc = "Get.add"
    /\ UNCHANGED <<nextId, cret, created, touched, called,
                   bucket, attached, sources, made, cfgQuota, calls>>
    /\ SourceAdd(t, TRUE)

\* Source.Put, first part: store the data locally.
PutAdd(t) ==
    LET th == thr[t]
    IN  /\ th.pc = "Put.add"
        /\ UNCHANGED <<nextId, cret, created, touched, called,
                       bucket, attached, sources, made, cfgQuota, calls>>
        /\ IF attached THEN SourceAdd(t, FALSE)
           ELSE /\ thr' = [thr EXCEPT ![t] = [th EXCEPT !.pc = "Put.upload"]]
                /\ UNCHANGED <<caches, disk>>

\* A Put that goes on to the copy whether the upload succeeded or not.
AfterUploadUnchecked(th, ok) == [th EXCEPT !.pc = "Put.copy", !.uploaded = ok]

\* Where Put goes after the upload of name + ".tmp".
AfterUpload(th, ok) ==
    IF ok THEN [th EXCEPT !.pc = "Put.copy", !.uploaded = TRUE]
    ELSE Return(th, Err)

\* What s.bucket.Put can do: the store takes an object whole or not at all,
\* and the call can report an error in either case (the answer is lost).
UploadResults ==
    {[ok |-> TRUE, stored |-> TRUE],
     [ok |-> FALSE, stored |-> FALSE],
     [ok |-> FALSE, stored |-> TRUE]}

\* Source.Put, second part: s.bucket.Put(name + ".tmp", data).
PutUpload(t) ==
    LET th == thr[t]
    IN  /\ th.pc = "Put.upload"
        /\ UNCHANGED <<cacheVars, attached, sources, made, cfgQuota, calls>>
        /\ \E w \in UploadResults :
             /\ bucket' = IF w.stored
                          THEN [bucket EXCEPT ![Tmp(th.name)] = th.data]
                          ELSE bucket
             /\ thr' = [thr EXCEPT ![t] =
                    AfterUpload([th EXCEPT !.fault = ~w.ok], w.ok)]

\* A copy that goes through also when the store holds no temporary object.
CopiesAnything(tmp, ok) == ok

\* Whether PutCopy succeeds: the store answers and holds the object to copy.
CanCopy(tmp, ok) == ok /\ tmp # NoFile

\* Source.Put, third part: s.bucket.PutCopy(name, ..., name + ".tmp"), the
\* copy inside the store. It fails when the store does not answer or holds
\* no temporary object, and then changes nothing.
PutCopy(t) ==
    LET th == thr[t]
        tmp == bucket[Tmp(th.name)]
    IN  /\ th.pc = "Put.copy"
        /\ UNCHANGED <<cacheVars, attached, sources, made, cfgQuota, calls>>
        /\ \E ok \in BOOLEAN :
             IF CanCopy(tmp, ok)
             THEN /\ bucket' = [bucket EXCEPT ![th.name] = tmp]
                  /\ thr' = [thr EXCEPT ![t] = [th EXCEPT !.pc = "Put.del"]]
             ELSE /\ bucket' = bucket
                  /\ thr' = [thr EXCEPT ![t] =
                        Return([th EXCEPT !.fault = ~ok], Err)]

\* Source.Put, last part: s.bucket.Del(name + ".tmp"), its error ignored.
PutDel(t) ==
    LET th == thr[t]
    IN  /\ th.pc = "Put.del"
        /\ UNCHANGED <<cacheVars, attached, sources, made, cfgQuota, calls>>
        /\ \E ok \in BOOLEAN :
             /\ bucket' = IF ok THEN [bucket EXCEPT ![Tmp(th.name)] = NoFile]
                          ELSE bucket
             /\ thr' = [thr EXCEPT ![t] = Return([th EXCEPT !.fault = ~ok], Ok)]

\* The fields of a goroutine that starts Get(name) and then goes to cont.
StartGet(th, name, cont) ==
    [th EXCEPT !.pc = "Get.cache", !.cont = cont, !.op = "Get",
               !.name = name, !.shared = FALSE, !.data = Nil, !.res = Nil, !.prev = Nil, !.cgot = Nil,
               !.contacted = FALSE, !.uploaded = FALSE, !.added = FALSE, !.fault = FALSE]

\* Whether the goroutine is inside Put(name, ...).
InPut(th, name) ==
    /\ th.op = "Put"
    /\ th.name = name
    /\ th.pc \in {"Put.add", "Put.upload", "Put.copy", "Put.del", "blocked"}

\* The fields of a goroutine that starts Put(name, data) and then goes to
\* cont; prev is what the bucket holds under name at that time.
StartPut(th, name, data, cont) ==
    [th EXCEPT !.pc = "Put.add", !.cont = cont, !.op = "Put",
               !.name = name, !.data = data, !.res = Nil,
               !.prev = bucket[name], !.cgot = Nil, !.contacted = FALSE,
               !.uploaded = FALSE, !.added = FALSE, !.fault = FALSE,
               !.shared = \E u \in Threads : InPut(thr[u], name)]

\* The goroutines once t has started Put(name, data): the Puts for the same
\* name that are under way now share name + ".tmp" with it.
BeginPut(base, t, name, data, cont) ==
    [u \in Threads |->
        IF u = t THEN StartPut(base[t], name, data, cont)
        ELSE IF InPut(base[u], name) THEN [base[u] EXCEPT !.shared = TRUE]
        ELSE base[u]]

\* ------------------------------------------------------------------------
\* The Source API used directly by two goroutines
\* ------------------------------------------------------------------------

\* The names the callers pass to Put, and those they pass to Get.
Called == {ImagePath, ProcPath(ImagePath, ValidParams)}
Read == Called \cup {TmpName}

SourceInit ==
    /\ PathIdle
    /\ PipeIdle
    /\ bucket \in [ObjectKeys -> Images \cup {NoFile}]
    /\ \A n \in ObjectKeys \ Called : bucket[n] = NoFile
    /\ attached \in BOOLEAN
    /\ cfgQuota \in (IF attached THEN Quotas ELSE {0})
    /\ calls = 0
    /\ caches = [p \in Paths |->
                   IF attached /\ p = SourcePath
                   THEN [NoCache EXCEPT !.id = 1, !.quota = cfgQuota]
                   ELSE NoCache]
    /\ disk = [p \in Paths |-> EmptyDir]
    /\ nextId = 2
    /\ cret = Call("init", <<>>, <<>>, Nil, 0, TRUE, Pre(NoCache, <<>>), Nil, FALSE)
    /\ created = [p \in Paths |-> 0]
    /\ touched = [p \in Paths |-> <<>>]
    /\ called = [p \in Paths |-> <<>>]
    /\ sources = 1
    /\ made = {1}
    /\ thr = [t \in Threads |->
                 IF t \in Handlers THEN [NoThread EXCEPT !.pc = "idle"]
                 ELSE NoThread]

CallGet(t) ==
    /\ thr[t].pc = "idle"
    /\ calls < MaxCalls
    /\ calls' = calls + 1
    /\ UNCHANGED <<cacheVars, bucket, attached, sources, made, cfgQuota>>
    /\ \E name \in Read :
         thr' = [thr EXCEPT ![t] = StartGet(thr[t], name, "idle")]

CallPut(t) ==
    /\ thr[t].pc = "idle"
    /\ calls < MaxCalls
    /\ calls' = calls + 1
    /\ UNCHANGED <<cacheVars, bucket, attached, sources, made, cfgQuota>>
    /\ \E name \in Called, data \in Images :
         thr' = BeginPut(thr, t, name, data, "idle")

SrcCallGet == UNCHANGED <<pathVars, pipeVars>> /\ \E t \in Threads : CallGet(t)
SrcCallPut == UNCHANGED <<pathVars, pipeVars>> /\ \E t \in Threads : CallPut(t)
SrcGetCache == UNCHANGED <<pathVars, pipeVars>> /\ \E t \in Threads : GetCache(t)
SrcGetBucket == UNCHANGED <<pathVars, pipeVars>> /\ \E t \in Threads : GetBucket(t)
SrcGetAdd == UNCHANGED <<pathVars, pipeVars>> /\ \E t \in Threads : GetAdd(t)
SrcPutAdd == UNCHANGED <<pathVars, pipeVars>> /\ \E t \in Threads : PutAdd(t)
SrcPutUpload == UNCHANGED <<pathVars, pipeVars>> /\ \E t \in Threads : PutUpload(t)
SrcPutCopy == UNCHANGED <<pathVars, pipeVars>> /\ \E t \in Threads : PutCopy(t)
SrcPutDel == UNCHANGED <<pathVars, pipeVars>> /\ \E t \in Threads : PutDel(t)

SourceNext ==
    \/ SrcCallGet
    \/ SrcCallPut
    \/ SrcGetCache
    \/ SrcGetBucket
    \/ SrcGetAdd
    \/ SrcPutAdd
    \/ SrcPutUpload
    \/ SrcPutCopy
    \/ SrcPutDel

SourceSpec == SourceInit /\ [][SourceNext]_vars

\* The caller of the FileCache API runs with no service around it.
CacheOnly ==
    /\ CacheInit
    /\ ServiceIdle
    /\ PathIdle
    /\ PipeIdle

CacheSpec == CacheOnly /\ [][CacheNext]_vars

\* ------------------------------------------------------------------------
\* Ico.Process: the handler of HEAD and GET /:params/*image
\* ------------------------------------------------------------------------

\* The loop over strings.Split(params, ","): every field must have two
\* parts around "=".
WellFormed(params) == \A i \in 1..Len(params) : Len(params[i]) = 2

\* The options of imager.Pipeline, by the names strings.Title makes its
\* field names of, the integers among them, and the limits in their tags.
Options == {"width", "height", "quality", "fit", "crop", "focus", "frame"}
IntOptions == {"width", "height", "quality"}

NoLimit == [set |-> FALSE, min |-> 0, max |-> 0]
Limit(field) ==
    IF field = "quality" THEN [set |-> TRUE, min |-> 1, max |-> 100]
    ELSE NoLimit

OptionError(kind, field, limit, value) ==
    [kind |-> kind, field |-> field, min |-> limit.min, max |-> limit.max,
     value |-> value]

\* A SetOption that takes every integer.
NeverOutside(v, limit) == FALSE

\* `v < min || v > max`, for a field whose tags have both.
Outside(v, limit) == limit.set /\ (v < limit.min \/ v > limit.max)

\* The focus values of four numbers that the model knows.
FocusBoxes == {"0:0:100:100", "400:800:100:100"}

\* Pipeline.SetOption(field, value): the error, or NoError.
SetOption(field, value) ==
    IF field \notin Options
    THEN OptionError("field not found", field, NoLimit, value)
    ELSE IF field \in IntOptions /\ value \notin Numerals
    THEN OptionError("unable to convert", field, NoLimit, value)
    ELSE IF field = "focus" /\ value \notin Numerals \cup FocusBoxes
    THEN OptionError("unable to convert", field, NoLimit, value)
    ELSE IF field \in IntOptions /\ Outside(IntValue(value), Limit(field))
    THEN OptionError("outside the limit", field, Limit(field), value)
    ELSE NoError

\* The loop of Process over the fields of params: the first error ends it.
RECURSIVE SetOptions(_, _)
SetOptions(params, i) ==
    IF i > Len(params) THEN NoError
    ELSE IF ~WellFormed(<<params[i]>>)
    THEN OptionError("malformed", "", NoLimit, "")
    ELSE LET err == SetOption(params[i][1], params[i][2])
         IN  IF err # NoError THEN err ELSE SetOptions(params, i + 1)

\* What the pipeline makes of an image: another image, of the same type.
Processed(orig, params) == <<orig[1], orig[2], orig[3] + Len(params)>>

\* A handler that takes every result of Get for a miss.
NeverFound(res) == FALSE

\* `data != nil` for the result of src.Get(procPath).
Found(res) == res \notin {Nil, Err}

\* A handler that never waits for the Put (as Imager.Process does).
NeverWaits(method) == TRUE

\* Whether Process starts the Put in a goroutine of its own.
IsAsync(method) == method = "GET"

\* The values of the X-S3-Region and X-S3-Bucket headers: none, or a name.
Headers == {<<"", "">>, <<"r1", "b1">>, <<"zz", "b1">>}

\* The handler's error return: service.go answers 400 with the error.
Fail(th) == [th EXCEPT !.pc = "exit", !.resp = Err]

Init ==
    /\ CacheInit
    /\ PathIdle
    /\ PipeIdle
    /\ bucket \in [ObjectKeys -> {Original, Processed(Original, ValidParams), NoFile}]
    /\ bucket[ImagePath] \in {Original, NoFile}
    /\ bucket[ProcPath(ImagePath, ValidParams)] # Original
    /\ \A n \in ObjectKeys \ Called : bucket[n] = NoFile
    /\ attached = TRUE
    /\ cfgQuota \in Quotas
    /\ sources = 0
    /\ made = {}
    /\ calls = 0
    /\ thr = [t \in Threads |->
                 IF t \in Handlers THEN [NoThread EXCEPT !.pc = "idle"]
                 ELSE NoThread]

\* Whether the handler has answered a GET request for image and params of
\* the default source with the image it made, having missed the stored one.
AnsweredMiss(th, image, params) ==
    /\ th.pc = "exit" /\ th.method = "GET" /\ th.put = "async"
    /\ th.resp = th.img
    /\ th.region = DefaultRegion /\ th.bkt = DefaultBucket
    /\ ProcPath(th.image, th.params) = ProcPath(image, params)

\* The directory of the object under a key of the bucket.
KeyDir(k) ==
    IF k[Len(k)] = Seg(".tmp") THEN SubSeq(k, 1, Len(k) - 2)
    ELSE SubSeq(k, 1, Len(k) - 1)

\* Whether the bucket b holds an object under the directory dir.
HasObjectsUnder(b, dir) ==
    \E k \in ObjectKeys :
        /\ b[k] # NoFile
        /\ Len(dir) <= Len(KeyDir(k))
        /\ SubSeq(KeyDir(k), 1, Len(dir)) = dir

\* The names of the directories next to an image, in the order in which the
\* store lists them.
SubDirs == <<LowQuality, HighQuality, MalformedParams, ValidParams>>

\* Source.ListDirs(dir): the common prefixes the bucket has under dir, one
\* directory deep.
RECURSIVE ListFrom(_, _, _)
ListFrom(b, dir, i) ==
    IF i > Len(SubDirs) THEN <<>>
    ELSE (IF HasObjectsUnder(b, dir \o <<SubDirs[i]>>)
          THEN <<dir \o <<SubDirs[i]>>>> ELSE <<>>) \o ListFrom(b, dir, i + 1)

ListDirs(b, dir) == ListFrom(b, dir, 1)

\* A Purge that leaves the image itself out of the list.
PurgeVariantsOnly(dirs, image) ==
    [i \in 1..Len(dirs) |-> Clean(dirs[i] \o <<File(image)>>)]

\* dirList of Purge: the name of the image joined to every directory listed
\* and to the directory of the image.
PurgeNames(dirs, image) ==
    [i \in 1..Len(dirs) |-> Clean(dirs[i] \o <<File(image)>>)]
        \o <<Clean(Dir(image) \o <<File(image)>>)>>

\* The k-th request arrives and its handler starts in goroutine k.
Request(t) ==
    /\ thr[t].pc = "idle"
    /\ calls < MaxCalls
    /\ t = calls + 1
    /\ calls' = calls + 1
    /\ UNCHANGED <<cacheVars, bucket, attached, sources, made, cfgQuota>>
    /\ \E method \in {"GET", "HEAD"}, h \in Headers,
          params \in {ValidParams, MalformedParams, LowQuality,
                      HighQuality} :
         thr' = [thr EXCEPT ![t] =
                   [NoThread EXCEPT !.pc = "getSource.lookup",
                                    !.req = calls + 1, !.method = method,
                                    !.region = h[1], !.bkt = h[2],
                                    !.params = params, !.image = ImagePath,
                                    !.later =
                                        /\ h[1] # "zz"
                                        /\ \E u \in Handlers :
                                              AnsweredMiss(thr[u], ImagePath, params)]]

\* The k-th request is a DELETE, which has no params: Purge starts.
PurgeRequest(t) ==
    /\ thr[t].pc = "idle"
    /\ calls < MaxCalls
    /\ t = calls + 1
    /\ calls' = calls + 1
    /\ UNCHANGED <<cacheVars, bucket, attached, sources, made, cfgQuota>>
    /\ \E h \in Headers :
         thr' = [thr EXCEPT ![t] =
                   [NoThread EXCEPT !.pc = "getSource.lookup",
                                    !.req = calls + 1, !.method = "DELETE",
                                    !.region = h[1], !.bkt = h[2],
                                    !.image = ImagePath]]

\* getSource, first part: the defaults for empty names and the lookup in
\* m.sources.
GetSourceLookup(t) ==
    LET th == thr[t]
        dflt == th.region = "" \/ th.bkt = ""
        region == IF dflt THEN DefaultRegion ELSE th.region
        bkt == IF dflt THEN DefaultBucket ELSE th.bkt
        found == region = DefaultRegion /\ bkt = DefaultBucket /\ sources # 0
    IN  /\ th.pc = "getSource.lookup"
        /\ UNCHANGED <<cacheVars, bucket, attached, sources, made, cfgQuota, calls>>
        /\ thr' = [thr EXCEPT ![t] =
              [th EXCEPT !.region = region, !.bkt = bkt,
                         !.pc = IF found THEN "getSource.ret"
                                ELSE "getSource.new"]]

\* getSource, second part: NewSource, InitCache and the store into
\* m.sources. NewFileCache is taken as one step.
GetSourceNew(t) ==
    LET th == thr[t]
    IN  /\ th.pc = "getSource.new"
        /\ UNCHANGED <<cret, created, touched, called,
                       bucket, attached, cfgQuota, calls>>
        /\ IF th.region \notin Regions
           THEN /\ thr' = [thr EXCEPT ![t] = Fail(th)]
                /\ UNCHANGED <<caches, disk, nextId, sources, made>>
           ELSE \E rmok \in BOOLEAN :
                  \E mkok \in (IF rmok THEN BOOLEAN ELSE {FALSE}) :
                    LET r == NewFileCache(CachePath(th.region, th.bkt),
                                          cfgQuota, rmok, mkok)
                        new == Cardinality(made) + 1
                    IN  /\ caches' = r.caches
                        /\ disk' = r.disk
                        /\ nextId' = r.nextId
                        /\ IF r.id = 0
                           THEN /\ thr' = [thr EXCEPT ![t] = Fail(th)]
                                /\ UNCHANGED <<sources, made>>
                           ELSE /\ made' = made \cup {new}
                                /\ sources' = new
                                /\ thr' = [thr EXCEPT ![t] =
                                      [th EXCEPT !.pc = "getSource.ret"]]

\* getSource, last part: `return m.sources[key], nil`; and Process goes on to
\* src.Get(procPath).
GetSourceRet(t) ==
    LET th == thr[t]
    IN  /\ th.pc = "getSource.ret"
        /\ UNCHANGED <<cacheVars, bucket, attached, sources, made, cfgQuota, calls>>
        /\ thr' = [thr EXCEPT ![t] =
              IF th.method = "DELETE"
              THEN [th EXCEPT !.src = sources, !.pc = "Purge.list"]
              ELSE StartGet([th EXCEPT !.src = sources],
                            ProcPath(th.image, th.params), "Process.got")]

\* Process after src.Get(procPath): the stored artifact is written back, or
\* the parameters are parsed and the original is asked for.
ProcessGot(t) ==
    LET th == thr[t]
    IN  /\ th.pc = "Process.got"
        /\ UNCHANGED <<cacheVars, bucket, attached, sources, made, cfgQuota, calls>>
        /\ thr' = [thr EXCEPT ![t] =
              IF Found(th.res)
              THEN [th EXCEPT !.pc = "exit", !.hit = TRUE, !.resp = th.res]
              ELSE IF SetOptions(th.params, 1) # NoError
              THEN Fail([th EXCEPT !.parsed = TRUE,
                                   !.error = SetOptions(th.params, 1)])
              ELSE StartGet([th EXCEPT !.parsed = TRUE],
                            th.image, "Process.orig")]

\* Process after src.Get(imgPath): the pipeline, and the Put of its result
\* by a new goroutine or by the handler itself.
ProcessOrig(t) ==
    LET th == thr[t]
        img == Processed(th.res, th.params)
        name == ProcPath(th.image, th.params)
        fetched == [th EXCEPT !.fetched = TRUE]
        ran == [fetched EXCEPT !.ran = TRUE, !.img = img]
    IN  /\ th.pc = "Process.orig"
        /\ UNCHANGED <<cacheVars, bucket, attached, sources, made, cfgQuota, calls>>
        /\ IF th.res = Err
           THEN thr' = [thr EXCEPT ![t] = Fail(fetched)]
           ELSE \E pok \in BOOLEAN :
                  thr' =
                    IF ~pok
                    THEN [thr EXCEPT ![t] = Fail([fetched EXCEPT !.ran = TRUE])]
                    ELSE IF IsAsync(th.method)
                    THEN BeginPut(
                           [thr EXCEPT ![t] = [ran EXCEPT !.pc = "Process.write",
                                                          !.put = "async"]],
                           Putter(th.req), name, img, "exit")
                    ELSE BeginPut(
                           [thr EXCEPT ![t] = [ran EXCEPT !.put = "sync"]],
                           t, name, img, "exit")

\* writeResponse(img.Data, ...) after `go src.Put(...)`.
ProcessWrite(t) ==
    LET th == thr[t]
    IN  /\ th.pc = "Process.write"
        /\ UNCHANGED <<cacheVars, bucket, attached, sources, made, cfgQuota, calls>>
        /\ thr' = [thr EXCEPT ![t] = [th EXCEPT !.pc = "exit", !.resp = th.img]]

\* Purge: src.ListDirs(imgDir), whose error ends the request, and the list
\* of the names to delete.
PurgeListDirs(t) ==
    LET th == thr[t]
        names == PurgeNames(ListDirs(bucket, Dir(th.image)), th.image)
    IN  /\ th.pc = "Purge.list"
        /\ UNCHANGED <<cacheVars, bucket, attached, sources, made, cfgQuota, calls>>
        /\ \E ok \in BOOLEAN :
             thr' = [thr EXCEPT ![t] =
                IF ~ok THEN Fail(th)
                ELSE [th EXCEPT !.op = "Delete", !.list = names,
                                !.todo = names, !.pc = "Delete.cache"]]

\* Source.Delete, first part: one s.cache.Remove(p) of the loop.
DeleteCache(t) ==
    LET th == thr[t]
        r == Remove(caches[SourcePath], disk[SourcePath], Head(th.todo))
    IN  /\ th.pc = "Delete.cache"
        /\ UNCHANGED <<nextId, cret, created, touched, called,
                       bucket, attached, sources, made, cfgQuota, calls>>
        /\ caches' = [caches EXCEPT ![SourcePath] = r.f]
        /\ disk' = [disk EXCEPT ![SourcePath] = r.d]
        /\ thr' = [thr EXCEPT ![t] =
              IF r.blocked THEN [th EXCEPT !.pc = "blocked"]
              ELSE IF Tail(th.todo) = <<>>
              THEN [th EXCEPT !.todo = <<>>, !.pc = "Delete.bucket"]
              ELSE [th EXCEPT !.todo = Tail(th.todo)]]

\* Source.Delete, second part: s.bucket.DelMulti of all the names, and the
\* answer of Purge. The store deletes or not, and the call can report an
\* error in either case.
DeleteBucket(t) ==
    LET th == thr[t]
        gone == {th.list[i] : i \in 1..Len(th.list)}
    IN  /\ th.pc = "Delete.bucket"
        /\ UNCHANGED <<cacheVars, attached, sources, made, cfgQuota, calls>>
        /\ \E w \in UploadResults :
             /\ bucket' = IF w.stored
                          THEN [k \in ObjectKeys |->
                                  IF k \in gone THEN NoFile ELSE bucket[k]]
                          ELSE bucket
             /\ thr' = [thr EXCEPT ![t] =
                   IF w.ok THEN [th EXCEPT !.pc = "exit", !.resp = Ok]
                   ELSE Fail(th)]

IcoPurgeRequest == UNCHANGED <<pathVars, pipeVars>> /\ \E t \in Threads : PurgeRequest(t)
IcoPurgeListDirs == UNCHANGED <<pathVars, pipeVars>> /\ \E t \in Threads : PurgeListDirs(t)
IcoDeleteCache == UNCHANGED <<pathVars, pipeVars>> /\ \E t \in Threads : DeleteCache(t)
IcoDeleteBucket == UNCHANGED <<pathVars, pipeVars>> /\ \E t \in Threads : DeleteBucket(t)
IcoRequest == UNCHANGED <<pathVars, pipeVars>> /\ \E t \in Threads : Request(t)
IcoGetSourceLookup == UNCHANGED <<pathVars, pipeVars>> /\ \E t \in Threads : GetSourceLookup(t)
IcoGetSourceNew == UNCHANGED <<pathVars, pipeVars>> /\ \E t \in Threads : GetSourceNew(t)
IcoGetSourceRet == UNCHANGED <<pathVars, pipeVars>> /\ \E t \in Threads : GetSourceRet(t)
IcoProcessGot == UNCHANGED <<pathVars, pipeVars>> /\ \E t \in Threads : ProcessGot(t)
IcoProcessOrig == UNCHANGED <<pathVars, pipeVars>> /\ \E t \in Threads : ProcessOrig(t)
IcoProcessWrite == UNCHANGED <<pathVars, pipeVars>> /\ \E t \in Threads : ProcessWrite(t)

Next ==
    \/ IcoRequest
    \/ IcoGetSourceLookup
    \/ IcoGetSourceNew
    \/ IcoGetSourceRet
    \/ IcoProcessGot
    \/ IcoProcessOrig
    \/ IcoProcessWrite
    \/ IcoPurgeRequest
    \/ IcoPurgeListDirs
    \/ IcoDeleteCache
    \/ IcoDeleteBucket
    \/ SrcGetCache
    \/ SrcGetBucket
    \/ SrcGetAdd
    \/ SrcPutAdd
    \/ SrcPutUpload
    \/ SrcPutCopy
    \/ SrcPutDel

Spec == Init /\ [][Next]_vars

\* ------------------------------------------------------------------------
\* Process: the derived key of a request
\* ------------------------------------------------------------------------

\* The values of the :params segment of the request path.
RequestParams == {ValidParams, Seg("d"), Seg("."), Seg("..")}

\* The values of *image, the rest of the request path: "/d/img", "/img",
\* "/d//img" and "/d/".
RequestImages ==
    {ImagePath, <<Seg("img")>>, <<Seg("d"), Seg(""), Seg("img")>>,
     <<Seg("d"), Seg("")>>}

Requests == [params : RequestParams, image : RequestImages]

PathInit ==
    /\ CacheInit
    /\ ServiceIdle
    /\ PipeIdle
    /\ request \in [{1, 2} -> Requests]
    /\ procPath = [k \in {1, 2} |-> Unset]

\* Process computes procPath for the k-th request.
Derive(k) ==
    /\ ~procPath[k].set
    /\ procPath' = [procPath EXCEPT ![k] =
                        Assigned(ProcPath(request[k].image, request[k].params))]
    /\ UNCHANGED <<cacheVars, svcVars, request, pipeVars>>

PathDerive == \E k \in {1, 2} : Derive(k)

PathNext == PathDerive

PathSpec == PathInit /\ [][PathNext]_vars

\* ------------------------------------------------------------------------
\* The image pipeline of service/ico/pipeline: parameters and construction
\* ------------------------------------------------------------------------

\* A parameter string is the sequence of its fields (the text between ","),
\* a field the sequence of its parts (the text between "="), and a part the
\* sequence of its tokens (the text between ":"), so that strings.Split on
\* each of the three separators is a projection.  The empty string is the
\* string of no fields.
Field(key, val) == <<<<key>>, val>>

Widths == {"0", "-1", "400", "500", "abc"}
Heights == {"0", "-1", "200", "400"}
Fits ==
    {<<"clip">>, <<"crop">>, <<"crop", "top">>, <<"crop", "bottom">>,
     <<"crop", "left">>, <<"crop", "right">>, <<"crop", "center">>,
     <<"crop", "point">>, <<"crop", "point", "1", "2">>,
     <<"crop", "middle">>, <<"fill">>, <<"scrop">>}

\* "width" has no "=", "width=400=2" has two.
NoEquals == <<<<"width">>>>
TwoEquals == <<<<"width">>, <<"400">>, <<"2">>>>

Fields ==
    {Field("width", <<v>>) : v \in Widths}
        \cup {Field("height", <<v>>) : v \in Heights}
        \cup {Field("fit", v) : v \in Fits}
        \cup {Field("foo", <<"1">>), NoEquals, TwoEquals}

\* A width, a height and a fit together.
Bounded ==
    {<<Field("width", <<w>>), Field("height", <<h>>), Field("fit", f)>> :
        w \in {"400", "500"}, h \in {"200", "400"}, f \in Fits}

ParamStrings ==
    {<<>>} \cup {<<f>> : f \in Fields} \cup {<<f, g>> : f, g \in Fields}
        \cup Bounded

\* Params, a map[string]string: the keys of the model, each with its value or
\* Absent.
ParamNames == {<<"width">>, <<"height">>, <<"fit">>, <<"foo">>}
Absent == <<>>
NoParams == [k \in ParamNames |-> Absent]

ParseError == [err |-> TRUE, params |-> NoParams]

\* A mutation of Parse: only the first field is read.
ParseFirstOnly(fields, i, p) ==
    IF Len(fields[1]) < 2 THEN ParseError
    ELSE [err |-> FALSE, params |-> [p EXCEPT ![fields[1][1]] = fields[1][2]]]

RECURSIVE ParseFrom(_, _, _)
ParseFrom(fields, i, p) ==
    IF i > Len(fields) THEN [err |-> FALSE, params |-> p]
    ELSE IF Len(fields[i]) < 2 THEN ParseError
    ELSE ParseFrom(fields, i + 1, [p EXCEPT ![fields[i][1]] = fields[i][2]])

\* Parse(params): the map of the fields, or an error.
Parse(params) ==
    IF params = <<>> THEN ParseError ELSE ParseFrom(params, 1, NoParams)

\* The struct tags of Resize, in the order of its fields.  The key tag
\* "fit=crop:point" is the name "fit" with the prefix "crop:point".
Tag(name, prefix, index, default, valid) ==
    [name |-> <<name>>, prefix |-> prefix, index |-> index,
     default |-> default, valid |-> valid]

WidthTag == Tag("width", <<>>, 0, "", {})
HeightTag == Tag("height", <<>>, 0, "", {})
KindTag == Tag("fit", <<>>, 0, "clip", {"crop"})
GravityTag ==
    Tag("fit", <<"crop">>, 0, "center",
        {"top", "bottom", "left", "right", "point"})
XTag == Tag("fit", <<"crop", "point">>, 0, "", {})
YTag == Tag("fit", <<"crop", "point">>, 1, "", {})

\* strings.HasPrefix on the joined tokens.  No token of the model begins
\* with another without being equal to it.
HasPrefix(val, prefix) ==
    /\ Len(val) >= Len(prefix)
    /\ SubSeq(val, 1, Len(prefix)) = prefix

\* val[len(prefix):] with the leading ":" trimmed; "" is the one empty token.
TrimPrefix(val, prefix) ==
    IF Len(val) = Len(prefix) THEN <<"">>
    ELSE SubSeq(val, Len(prefix) + 1, Len(val))

\* regexp.MatchString(valid, token): the pattern is an alternation and is not
\* anchored, so a token that contains an alternative matches.
Contains(token, alt) ==
    token = alt \/ <<token, alt>> \in {<<"scrop", "crop">>}

Matches(valid, token) == \E alt \in valid : Contains(token, alt)

FieldValue(val) == [err |-> FALSE, val |-> val]
FieldError == [err |-> TRUE, val |-> ""]

getFieldValue(p, tag) ==
    LET raw == p[tag.name]
        ok == raw # Absent
        extended == tag.prefix # <<>>
    IN  IF ok /\ extended /\ ~HasPrefix(raw, tag.prefix) THEN FieldValue("")
        ELSE LET val == IF ok /\ extended THEN TrimPrefix(raw, tag.prefix)
                        ELSE raw
             IN  IF ~ok /\ tag.default = "" THEN FieldValue("")
                 ELSE IF ~ok \/ val = <<"">> THEN FieldValue(tag.default)
                 ELSE IF Len(val) <= tag.index THEN FieldError
                 ELSE IF tag.valid # {}
                            /\ ~Matches(tag.valid, val[tag.index + 1])
                 THEN FieldError
                 ELSE FieldValue(val[tag.index + 1])

\* populateField for an integer field: the empty value leaves the zero.
IntField(v) ==
    IF v.err \/ (v.val # "" /\ v.val \notin Numerals) THEN FieldError
    ELSE FieldValue(IF v.val = "" THEN 0 ELSE IntValue(v.val))

NoResize ==
    [Width |-> 0, Height |-> 0, Kind |-> "", Gravity |-> "", X |-> 0, Y |-> 0]

\* Params.Unpack into a Resize: every field from its tag, the first error
\* ending it.
Unpack(p) ==
    LET width == IntField(getFieldValue(p, WidthTag))
        height == IntField(getFieldValue(p, HeightTag))
        kind == getFieldValue(p, KindTag)
        gravity == getFieldValue(p, GravityTag)
        x == IntField(getFieldValue(p, XTag))
        y == IntField(getFieldValue(p, YTag))
    IN  IF width.err \/ height.err \/ kind.err \/ gravity.err \/ x.err \/ y.err
        THEN [err |-> TRUE, r |-> NoResize]
        ELSE [err |-> FALSE,
              r |-> [Width |-> width.val, Height |-> height.val,
                     Kind |-> kind.val, Gravity |-> gravity.val,
                     X |-> x.val, Y |-> y.val]]

\* An initialiser's answer: an error, no operation (nil, nil), or one.
NoOperation == [err |-> FALSE, nil |-> TRUE, op |-> "", r |-> NoResize]
OperationError == [err |-> TRUE, nil |-> TRUE, op |-> "", r |-> NoResize]

\* `r.Width == 0 && r.Height == 0`
NotRequested(r) == r.Width = 0 /\ r.Height = 0

NewResize(p) ==
    LET u == Unpack(p)
    IN  IF u.err THEN OperationError
        ELSE IF NotRequested(u.r) THEN NoOperation
        ELSE [err |-> FALSE, nil |-> FALSE, op |-> "Resize", r |-> u.r]

\* The ordered list of all possible operations.
operations == <<"NewResize">>

Initialise(init, p) == CASE init = "NewResize" -> NewResize(p)

PipelineError == [built |-> TRUE, err |-> TRUE, operations |-> <<>>]

RECURSIVE NewFrom(_, _, _)
NewFrom(p, i, ops) ==
    IF i > Len(operations)
    THEN [built |-> TRUE, err |-> FALSE, operations |-> ops]
    ELSE LET o == Initialise(operations[i], p)
         IN  IF o.err THEN PipelineError
             ELSE IF o.nil THEN NewFrom(p, i + 1, ops)
             ELSE NewFrom(p, i + 1, Append(ops, [op |-> o.op, r |-> o.r]))

\* New(params): the pipeline of the operations the parameters ask for.
New(params) ==
    LET prm == Parse(params)
    IN  IF prm.err THEN PipelineError ELSE NewFrom(prm.params, 1, <<>>)

\* ------------------------------------------------------------------------
\* The image pipeline: processing
\* ------------------------------------------------------------------------

\* An image: its type, its dimensions, and what wrote its bytes.  Two images
\* have the same bytes when they are the same record; the bytes of an image
\* from elsewhere are not the bytes the pipeline's encoder writes for it.
\* Every image decodes (ico_image_new does not fail).
Picture(type, w, h) ==
    [type |-> type, w |-> w, h |-> h, encoder |-> "origin"]

Pictures ==
    {Picture("jpeg", 500, 1000), Picture("jpeg", 1000, 500),
     Picture("png", 1000, 500), Picture("jpeg", 2000, 1000),
     Picture("png", 1000, 700), Picture("jpeg", 400, 200),
     Picture("png", 300, 100), Picture("gif", 400, 200)}

\* A float64 that is a quotient of integers, kept exact.
Ratio(n, d) == [n |-> n, d |-> d]
Zero == Ratio(0, 1)
AtLeast(f, k) == f.n >= k * f.d
Above(f, k) == f.n > k * f.d
Floor(f) == f.n \div f.d
Max(f, g) == IF f.n * g.d >= g.n * f.d THEN f ELSE g
Min(f, g) == IF f.n * g.d <= g.n * f.d THEN f ELSE g
Ceiling(n, d) == (n + d - 1) \div d

\* Go's integer division, which truncates towards zero.
Quotient(a, b) == IF a >= 0 THEN a \div b ELSE 0 - ((0 - a) \div b)

\* Mutations of resizeFactor: the smaller delta whatever the fit, and the
\* larger.
SmallestDelta(kind, xf, yf) == Min(xf, yf)
LargestDelta(kind, xf, yf) == Max(xf, yf)

\* "the smallest delta when cropping, and the largest when we're not"
Delta(kind, xf, yf) == IF kind = "crop" THEN Min(xf, yf) ELSE Max(xf, yf)

resizeFactor(r, img) ==
    IF r.Width > 0 /\ r.Height > 0
    THEN Delta(r.Kind, Ratio(img.w, r.Width), Ratio(img.h, r.Height))
    ELSE IF r.Width > 0 THEN Ratio(img.w, r.Width)
    ELSE IF r.Height > 0 THEN Ratio(img.h, r.Height)
    ELSE Zero

\* vips_shrink by an integer factor, and the JPEG decoder's shrink-on-load.
vips_shrink(img, k) == [img EXCEPT !.w = @ \div k, !.h = @ \div k]
vips_jpegload(img, k) ==
    [img EXCEPT !.w = Ceiling(@, k), !.h = Ceiling(@, k)]

ico_image_shrink(img, factor) ==
    IF ~AtLeast(factor, 2) THEN img
    ELSE IF img.type = "jpeg"
    THEN LET shrink == IF AtLeast(factor, 8) THEN 8
                       ELSE IF AtLeast(factor, 4) THEN 4 ELSE 2
             tmp == vips_jpegload(img, shrink)
             rest == Ratio(factor.n, factor.d * shrink)
         IN  IF ~AtLeast(rest, 2) THEN tmp ELSE vips_shrink(tmp, Floor(rest))
    ELSE vips_shrink(img, Floor(factor))

\* vips_affine by the residual floor(factor) / factor.
ico_image_affine(img, factor) ==
    LET residual == Ratio(Floor(factor) * factor.d, factor.n)
    IN  [img EXCEPT !.w = Ceiling(@ * residual.n, residual.d),
                    !.h = Ceiling(@ * residual.n, residual.d)]

\* vips_extract_area fails for an area that is not inside the image.
CanCrop(img, x, y, w, h) ==
    /\ x >= 0 /\ y >= 0 /\ w > 0 /\ h > 0
    /\ x + w <= img.w /\ y + h <= img.h

ico_image_crop(img, x, y, w, h) == [img EXCEPT !.w = w, !.h = h]

cropPoint(r, factor) ==
    [r EXCEPT !.X = Quotient(@ * factor.d, factor.n),
              !.Y = Quotient(@ * factor.d, factor.n)]

Clamp(v, top) == IF v < 0 THEN (IF top < 0 THEN top ELSE 0)
                 ELSE IF v > top THEN top ELSE v

cropBounds(r, img) ==
    LET w == img.w
        h == img.h
        xy == CASE r.Gravity = "point" ->
                     <<Clamp(r.X - Quotient(r.Width, 2), w - r.Width),
                       Clamp(r.Y - Quotient(r.Height, 2), h - r.Height)>>
                [] r.Gravity = "left" -> <<0, Quotient(h - r.Height, 2)>>
                [] r.Gravity = "right" ->
                     <<w - r.Width, Quotient(h - r.Height, 2)>>
                [] r.Gravity = "top" -> <<Quotient(w - r.Width, 2), 0>>
                [] r.Gravity = "bottom" ->
                     <<Quotient(w - r.Width, 2), h - r.Height>>
                [] OTHER ->
                     <<Quotient(w - r.Width, 2), Quotient(h - r.Height, 2)>>
    IN  [x |-> xy[1], y |-> xy[2], w |-> r.Width, h |-> r.Height]

\* What an operation leaves: the image, the vips operations applied to it in
\* order, the operation's own fields, whether it failed, and the area it has
\* asked ico_image_crop for, if any, with the size of the image it was asked
\* of.
Applied(err, img, steps, r) ==
    [err |-> err, image |-> img, steps |-> steps, r |-> r, area |-> NoArea]

Area(b, img) ==
    [issued |-> TRUE, x |-> b.x, y |-> b.y, w |-> b.w, h |-> b.h,
     W |-> img.w, H |-> img.h]

\* The fit stage of Resize.Process.
ResizeFit(r, img, steps) ==
    IF r.Kind # "crop" THEN Applied(FALSE, img, steps, r)
    ELSE LET b == cropBounds(r, img)
         IN  IF b.x = 0 /\ b.y = 0 /\ b.w = img.w /\ b.h = img.h
             THEN Applied(FALSE, img, steps, r)
             ELSE IF ~CanCrop(img, b.x, b.y, b.w, b.h)
             THEN [Applied(TRUE, img, steps, r) EXCEPT !.area = Area(b, img)]
             ELSE [Applied(FALSE, ico_image_crop(img, b.x, b.y, b.w, b.h),
                           Append(steps, "crop"), r)
                      EXCEPT !.area = Area(b, img)]

\* The affine stage of Resize.Process.
ResizeAffine(r, img, steps) ==
    LET factor == resizeFactor(r, img)
    IN  IF Above(factor, 1)
        THEN ResizeFit(cropPoint(r, factor), ico_image_affine(img, factor),
                       Append(steps, "affine"))
        ELSE ResizeFit(r, img, steps)

\* `(r.Width > w || r.Height > h) || (r.Width == w && r.Height == h)`
Enlarges(r, img) ==
    \/ r.Width > img.w \/ r.Height > img.h
    \/ (r.Width = img.w /\ r.Height = img.h)

\* Resize.Process(img)
ResizeProcess(r, img) ==
    IF Enlarges(r, img) THEN Applied(FALSE, img, <<>>, r)
    ELSE LET factor == resizeFactor(r, img)
         IN  IF AtLeast(factor, 2)
             THEN ResizeAffine(cropPoint(r, factor),
                               ico_image_shrink(img, factor), <<"shrink">>)
             ELSE ResizeAffine(r, img, <<>>)

\* ico_image_write: the image's type decides the encoder, and GIF has none.
CanWrite(img) == img.type \in {"jpeg", "png"}
ico_image_write(img) == [img EXCEPT !.encoder = "vips"]

Finished(err, img, steps, area) ==
    [done |-> TRUE, err |-> err, image |-> img, steps |-> steps,
     area |-> area]

RECURSIVE ProcessFrom(_, _, _, _, _)
ProcessFrom(ops, i, img, steps, area) ==
    IF i > Len(ops)
    THEN IF CanWrite(img)
         THEN Finished(FALSE, ico_image_write(img), steps, area)
         ELSE Finished(TRUE, img, steps, area)
    ELSE LET a == ResizeProcess(ops[i].r, img)
         IN  IF a.err THEN Finished(TRUE, img, steps, a.area)
             ELSE ProcessFrom(ops, i + 1, a.image, steps \o a.steps, a.area)

\* Pipeline.Process(img): what img is afterwards, or an error.
Process(p, img) == ProcessFrom(p.operations, 1, img, <<>>, NoArea)

\* ------------------------------------------------------------------------
\* The pipeline as a function: New on two orderings of one parameter string,
\* then Process of the first pipeline on an image
\* ------------------------------------------------------------------------

Reverse(s) == [i \in 1..Len(s) |-> s[Len(s) + 1 - i]]
Orderings(s) == {s, Reverse(s)}

PipeInit ==
    /\ CacheInit
    /\ ServiceIdle
    /\ PathIdle
    /\ \E s \in ParamStrings : \E t \in Orderings(s) :
          paramStrings = [k \in {1, 2} |-> IF k = 1 THEN s ELSE t]
    /\ pipelines = [k \in {1, 2} |-> NoPipeline]
    /\ picture \in Pictures
    /\ processed = NoResult

PipelineNew ==
    /\ \E k \in {1, 2} :
          /\ ~pipelines[k].built
          /\ pipelines' = [pipelines EXCEPT ![k] = New(paramStrings[k])]
    /\ UNCHANGED <<cacheVars, svcVars, pathVars, paramStrings, picture,
                   processed>>

PipelineProcess ==
    /\ pipelines[1].built
    /\ ~pipelines[1].err
    /\ ~processed.done
    /\ processed' = Process(pipelines[1], picture)
    /\ UNCHANGED <<cacheVars, svcVars, pathVars, paramStrings, pipelines,
                   picture>>

PipeNext == PipelineNew \/ PipelineProcess

PipeSpec == PipeInit /\ [][PipeNext]_vars

\* ------------------------------------------------------------------------
\* The pipeline of the handlers (imager.Pipeline): the fields SetOption
\* stores, and Process on an image
\* ------------------------------------------------------------------------

\* The defaults of the field tags, as NewPipeline sets them.
NewPipeline ==
    [Width |-> 0, Height |-> 0, Quality |-> 75, Fit |-> "crop",
     Crop |-> "top", Focus |-> <<0, 0, 0, 0>>, Frame |-> FALSE]

\* strconv.ParseFloat on each ":"-part of a focus value.
ParseFloats(value) ==
    CASE value = "0:0:100:100" -> <<0, 0, 100, 100>>
      [] value = "400:800:100:100" -> <<400, 800, 100, 100>>
      [] OTHER -> <<IntValue(value)>>

\* What SetOption stores in the pipeline when it returns no error.
Stored(p, field, value) ==
    CASE field = "width" -> [p EXCEPT !.Width = IntValue(value)]
      [] field = "height" -> [p EXCEPT !.Height = IntValue(value)]
      [] field = "quality" -> [p EXCEPT !.Quality = IntValue(value)]
      [] field = "fit" -> [p EXCEPT !.Fit = value]
      [] field = "crop" -> [p EXCEPT !.Crop = value]
      [] field = "focus" -> [p EXCEPT !.Focus = ParseFloats(value)]
      [] field = "frame" -> [p EXCEPT !.Frame = (value = "true")]

RECURSIVE StoredAll(_, _, _)
StoredAll(p, params, i) ==
    IF i > Len(params) THEN p
    ELSE StoredAll(Stored(p, params[i][1], params[i][2]), params, i + 1)

\* NewPipeline and the SetOption loop of the handler: a pipeline of the one
\* Process, or the error of the first field that is refused.
Configured(params) ==
    IF SetOptions(params, 1) # NoError THEN PipelineError
    ELSE [built |-> TRUE, err |-> FALSE,
          operations |->
              <<[op |-> "Process", r |-> StoredAll(NewPipeline, params, 1)]>>]

\* "If the pipeline requests an enlarged image, or dimensions equal to
\* original image, return original."
ReturnsOriginal(p, img) ==
    \/ p.Width > img.w \/ p.Height > img.h
    \/ (p.Width = img.w /\ p.Height = img.h)

\* The resize factor, and the pipeline with the bound Process derives when
\* only the other one is given.  math.Floor(h / factor) is taken exactly.
Sized(p, img) ==
    IF p.Width > 0 /\ p.Height > 0
    THEN [set |-> TRUE, p |-> p,
          factor |-> Delta(p.Fit, Ratio(img.w, p.Width),
                           Ratio(img.h, p.Height))]
    ELSE IF p.Width > 0
    THEN [set |-> TRUE, factor |-> Ratio(img.w, p.Width),
          p |-> [p EXCEPT !.Height = (img.h * p.Width) \div img.w]]
    ELSE IF p.Height > 0
    THEN [set |-> TRUE, factor |-> Ratio(img.h, p.Height),
          p |-> [p EXCEPT !.Width = (img.w * p.Height) \div img.h]]
    ELSE [set |-> FALSE, factor |-> Zero, p |-> p]

\* The two shrinks of Process (on load for a JPEG, then by an integer), and
\* the residual factor they leave.
Shrunk(p, img, factor) ==
    LET shrink == IF Floor(factor) < 1 THEN 1 ELSE Floor(factor)
        onLoad == shrink > 1 /\ img.type = "jpeg"
        shrinkLoad == IF shrink >= 8 THEN 8 ELSE IF shrink >= 4 THEN 4 ELSE 2
        rest == IF onLoad
                THEN Max(Ratio(factor.n, factor.d * shrinkLoad), Ratio(1, 1))
                ELSE factor
        again == IF onLoad THEN Floor(rest) ELSE shrink
        loaded == IF onLoad THEN vips_jpegload(img, shrinkLoad) ELSE img
        shrunk == IF again > 1 THEN vips_shrink(loaded, again) ELSE loaded
        rx == Ratio(p.Width, shrunk.w)
        ry == Ratio(p.Height, shrunk.h)
    IN  [image |-> shrunk,
         steps |-> (IF onLoad THEN <<"load">> ELSE <<>>)
                       \o (IF again > 1 THEN <<"shrink">> ELSE <<>>),
         residual |-> IF again > 1
                      THEN (IF p.Fit = "crop" THEN Max(rx, ry)
                            ELSE Min(rx, ry))
                      ELSE Ratio(again * rest.d, rest.n)]

\* Vips_affine_bilinear by the residual.
Affined(img, residual) ==
    [img EXCEPT !.w = Ceiling(@ * residual.n, residual.d),
                !.h = Ceiling(@ * residual.n, residual.d)]

\* The switch on p.Crop: the offsets (cx, cy) in the resized image img, of
\* an original that was W by H.
Offsets(p, img, W, H) ==
    LET w == img.w
        h == img.h
        factor == IF W \div w >= H \div h THEN W \div w ELSE H \div h
        bx == (2 * p.Focus[1] + p.Focus[3]) \div (2 * factor)
        by == (2 * p.Focus[2] + p.Focus[4]) \div (2 * factor)
    IN  CASE p.Crop = "focus" ->
               <<Clamp(bx - Quotient(p.Width, 2), w - p.Width),
                 Clamp(by - Quotient(p.Height, 2), h - p.Height)>>
          [] p.Crop = "right" -> <<0, Quotient(h - p.Height + 1, 2)>>
          [] p.Crop = "left" ->
               <<w - p.Width, Quotient(h - p.Height + 1, 2)>>
          [] p.Crop = "bottom" -> <<Quotient(w - p.Width + 1, 2), 0>>
          [] OTHER -> <<Quotient(w - p.Width + 1, 2), h - p.Height>>

\* "Crop image if required", and the save that follows.
Cropped(p, img, steps, W, H) ==
    IF ~(p.Fit = "crop" /\ (img.w # p.Width \/ img.h # p.Height))
    THEN Finished(FALSE, ico_image_write(img), steps, NoArea)
    ELSE IF p.Crop = "focus" /\ Len(p.Focus) # 4
    THEN Finished(TRUE, img, steps, NoArea)
    ELSE LET at == Offsets(p, img, W, H)
             b == [x |-> at[1], y |-> at[2],
                   w |-> IF img.w < p.Width THEN img.w ELSE p.Width,
                   h |-> IF img.h < p.Height THEN img.h ELSE p.Height]
         IN  IF ~CanCrop(img, b.x, b.y, b.w, b.h)
             THEN Finished(TRUE, img, steps, Area(b, img))
             ELSE Finished(FALSE,
                           ico_image_write(
                               ico_image_crop(img, b.x, b.y, b.w, b.h)),
                           Append(steps, "crop"), Area(b, img))

\* Process on the bytes of a JPEG or a PNG.
ProcessVips(p, img) ==
    IF ReturnsOriginal(p, img) \/ ~Sized(p, img).set
    THEN Finished(FALSE, img, <<>>, NoArea)
    ELSE LET q == Sized(p, img).p
             s == Shrunk(q, img, Sized(p, img).factor)
             resized == IF s.residual.n # 0
                        THEN Affined(s.image, s.residual) ELSE s.image
             steps == IF s.residual.n # 0
                      THEN Append(s.steps, "affine") ELSE s.steps
         IN  Cropped(q, resized, steps, img.w, img.h)

\* Pipeline.Process(data): a GIF is processed frame by frame as JPEG images
\* and encoded again; `if p.Frame { return frames[0], nil }` returns the
\* first frame as the JPEG it was processed as.
ImagerProcess(p, img) ==
    IF img.type = "gif"
    THEN LET frame == ProcessVips(p, [img EXCEPT !.type = "jpeg",
                                                !.encoder = "image/jpeg"])
         IN  IF frame.err THEN frame
             ELSE IF p.Frame THEN frame
             ELSE [frame EXCEPT !.image.type = "gif",
                                !.image.encoder = "image/gif"]
    ELSE IF img.type \notin {"jpeg", "png"}
    THEN Finished(TRUE, img, <<>>, NoArea)
    ELSE ProcessVips(p, img)

\* ------------------------------------------------------------------------
\* The handlers' pipeline as a function: the fields of a parameter string
\* are stored, then an image is processed
\* ------------------------------------------------------------------------

Choice(field, values) == {<<>>} \cup {<<<<field, v>>>> : v \in values}

ImagerParams ==
    {a \o b \o c \o d \o e \o f :
        a \in Choice("width", {"400", "500"}),
        b \in Choice("height", {"200", "400"}),
        c \in Choice("fit", {"crop", "clip"}),
        d \in Choice("crop", {"top", "bottom", "left", "right", "center",
                              "focus"}),
        e \in Choice("focus", {"0:0:100:100", "400:800:100:100", "1"}),
        f \in Choice("frame", {"true"})} \ {<<>>}

ImagerInit ==
    /\ CacheInit
    /\ ServiceIdle
    /\ PathIdle
    /\ \E s \in ImagerParams : paramStrings = [k \in {1, 2} |-> s]
    /\ pipelines = [k \in {1, 2} |-> NoPipeline]
    /\ picture \in Pictures
    /\ processed = NoResult

ImagerNew ==
    /\ ~pipelines[1].built
    /\ pipelines' = [pipelines EXCEPT ![1] = Configured(paramStrings[1])]
    /\ UNCHANGED <<cacheVars, svcVars, pathVars, paramStrings, picture,
                   processed>>

ImagerRun ==
    /\ pipelines[1].built
    /\ ~pipelines[1].err
    /\ ~processed.done
    /\ processed' = ImagerProcess(pipelines[1].operations[1].r, picture)
    /\ UNCHANGED <<cacheVars, svcVars, pathVars, paramStrings, pipelines,
                   picture>>

ImagerNext == ImagerNew \/ ImagerRun

ImagerSpec == ImagerInit /\ [][ImagerNext]_vars

\* ------------------------------------------------------------------------
\* FileCache under its lock: goroutines that call Get and Remove on one
\* cache at the same time, step by step
\* ------------------------------------------------------------------------

\* thr[t].rlocked tells that goroutine t holds the shared lock of the cache,
\* caches[p].locked that some goroutine holds the exclusive one, and
\* thr[t].raced that the MoveToFront of t ran while another goroutine was
\* inside MoveToFront.
Locked == caches[SourcePath].locked
Readers == {t \in Handlers : thr[t].rlocked}
Movers == {t \in Handlers : thr[t].pc = "Get.moving"}

\* What two MoveToFront calls that run at the same time can leave of the
\* list: the node moved, the move lost, or the node unlinked.
RacedOrders(order, el) ==
    {MoveToFront(order, el), order, ListRemove(order, el)}

\* A cache that three Adds have filled.
Filled ==
    [NoCache EXCEPT
        !.id = 1,
        !.usage = 3,
        !.order = <<file(<<Seg("c")>>, <<1>>), file(<<Seg("b")>>, <<1>>),
                    file(<<Seg("a")>>, <<1>>)>>,
        !.cache = [k \in Keys |->
                      IF k \in CacheKeys THEN file(k, <<1>>) ELSE NoEl]]

LockInit ==
    /\ PathIdle
    /\ PipeIdle
    /\ bucket = [k \in ObjectKeys |-> NoFile]
    /\ attached = TRUE
    /\ sources = 1
    /\ made = {1}
    /\ cfgQuota = 0
    /\ calls = 0
    /\ caches = [p \in Paths |-> IF p = SourcePath THEN Filled ELSE NoCache]
    /\ disk = [p \in Paths |->
                  [k \in Keys |-> IF k \in CacheKeys THEN <<1>> ELSE NoFile]]
    /\ nextId = 2
    /\ cret = Call("init", <<>>, <<>>, Nil, 0, TRUE, Pre(NoCache, <<>>), Nil, FALSE)
    /\ created = [p \in Paths |-> 0]
    /\ touched = [p \in Paths |-> <<>>]
    /\ called = [p \in Paths |-> <<>>]
    /\ thr = [t \in Threads |->
                 IF t \in Handlers THEN [NoThread EXCEPT !.pc = "idle"]
                 ELSE NoThread]

LockFrame ==
    UNCHANGED <<nextId, cret, created, touched, called, bucket, attached,
                sources, made, cfgQuota, calls, pathVars, pipeVars>>

\* f.RLock() of Get: it waits while the exclusive lock is held.
GetRLock ==
    /\ LockFrame
    /\ UNCHANGED <<caches, disk>>
    /\ ~Locked
    /\ \E t \in Handlers, key \in CacheKeys :
          /\ thr[t].pc = "idle"
          /\ thr' = [thr EXCEPT ![t] = [@ EXCEPT !.pc = "Get.probe",
                                                !.op = "Get",
                                                !.name = key,
                                                !.rlocked = TRUE]]

\* The probe of the index and the read of the file; for an entry that is
\* there and readable Get enters f.order.MoveToFront(el).
GetProbe ==
    /\ LockFrame
    /\ UNCHANGED <<caches, disk>>
    /\ \E t \in Handlers, rok \in BOOLEAN :
          /\ thr[t].pc = "Get.probe"
          /\ LET f == caches[SourcePath]
                 key == thr[t].name
             IN  IF Indexed(f, key) /\ rok /\ disk[SourcePath][key] # NoFile
                 THEN thr' = [u \in Threads |->
                                 IF u = t
                                 THEN [thr[u] EXCEPT
                                          !.pc = "Get.moving",
                                          !.res = disk[SourcePath][key],
                                          !.raced = Movers # {}]
                                 ELSE IF u \in Movers
                                 THEN [thr[u] EXCEPT !.raced = TRUE]
                                 ELSE thr[u]]
                 ELSE thr' = [thr EXCEPT ![t] = [@ EXCEPT !.pc = "Get.unlock",
                                                         !.res = Nil]]

\* MoveToFront returns: the node is at the front, unless another MoveToFront
\* was at work on the list at the same time.
GetMoved ==
    /\ LockFrame
    /\ UNCHANGED disk
    /\ \E t \in Handlers :
          /\ thr[t].pc = "Get.moving"
          /\ LET f == caches[SourcePath]
                 el == f.cache[thr[t].name]
             IN  \E order \in (IF thr[t].raced THEN RacedOrders(f.order, el)
                               ELSE {MoveToFront(f.order, el)}) :
                     caches' = [caches EXCEPT ![SourcePath].order = order]
          /\ thr' = [thr EXCEPT ![t] = [@ EXCEPT !.pc = "Get.unlock"]]

\* The deferred f.RUnlock().
GetRUnlock ==
    /\ LockFrame
    /\ UNCHANGED <<caches, disk>>
    /\ \E t \in Handlers :
          /\ thr[t].pc = "Get.unlock"
          /\ thr' = [thr EXCEPT ![t] = [@ EXCEPT !.pc = "done",
                                                !.rlocked = FALSE]]

\* f.Lock() of Remove: it waits while any lock on the cache is held.
RemoveLock ==
    /\ LockFrame
    /\ UNCHANGED disk
    /\ ~Locked
    /\ Readers = {}
    /\ \E t \in Handlers, key \in CacheKeys :
          /\ thr[t].pc = "idle"
          /\ thr' = [thr EXCEPT ![t] = [@ EXCEPT !.pc = "Remove.locked",
                                                !.op = "Remove",
                                                !.name = key]]
    /\ caches' = [caches EXCEPT ![SourcePath].locked = TRUE]

\* The body of Remove and the deferred f.Unlock().
RemoveUnlock ==
    /\ LockFrame
    /\ \E t \in Handlers :
          /\ thr[t].pc = "Remove.locked"
          /\ LET r == Remove([caches[SourcePath] EXCEPT !.locked = FALSE],
                             disk[SourcePath], thr[t].name)
             IN  /\ caches' = [caches EXCEPT ![SourcePath] = r.f]
                 /\ disk' = [disk EXCEPT ![SourcePath] = r.d]
          /\ thr' = [thr EXCEPT ![t] = [@ EXCEPT !.pc = "done"]]

LockNext ==
    \/ GetRLock
    \/ GetProbe
    \/ GetMoved
    \/ GetRUnlock
    \/ RemoveLock
    \/ RemoveUnlock

LockSpec == LockInit /\ [][LockNext]_vars

\* ------------------------------------------------------------------------
\* Claims about the FileCache (checked under CacheSpec)
\* ------------------------------------------------------------------------

RECURSIVE SumSizes(_, _)
SumSizes(f, keys) ==
    IF keys = {} THEN 0
    ELSE LET k == CHOOSE x \in keys : TRUE
         IN  f.cache[k].size + SumSizes(f, keys \ {k})

OrderKeys(f) == [i \in 1..Len(f.order) |-> f.order[i].key]

\* C1: after every call, usage equals the sum of the sizes of the indexed
\* entries, and is never negative.
C1_UsageIsSumOfSizes ==
    \A p \in Paths :
        /\ caches[p].usage = SumSizes(caches[p], Keys)
        /\ caches[p].usage >= 0

\* C1 witness: a RemoveOldest has removed an entry and two entries of
\* different sizes remain.
C1_Witness ==
    \E p \in Paths :
        /\ cret.op = "RemoveOldest" /\ cret.path = p /\ cret.pre.had
        /\ Len(caches[p].order) = 2
        /\ caches[p].usage = 4
        /\ cret.pre.usage > 4

\* C2: a cache with a quota never uses more than its quota, whatever calls
\* were made and however NewFileCache changed the quota.
C2_UsageWithinQuota ==
    \A p \in Paths :
        caches[p].quota > 0 => caches[p].usage <= caches[p].quota

\* C2 witness: a repeated NewFileCache changed the quota of a cache that
\* holds entries.
C2_Witness ==
    \E p \in Paths :
        /\ cret.op = "NewFileCache" /\ cret.path = p
        /\ cret.pre.quota = 3 /\ caches[p].quota = 5
        /\ caches[p].usage = 2

\* Whether the last call was, for its key, an Add of data below the quota
\* or a Get that returned bytes.
AcceptedTouch ==
    \/ cret.op = "Add" /\ ~(cret.pre.quota > 0 /\ Len(cret.data) >= cret.pre.quota)
    \/ cret.op = "Get" /\ cret.val # Nil

\* C3 (amended): the order list holds the indexed keys by the time of their
\* last touch, the most recent first, where a touch is a successful Get or an
\* Add that was not refused for its size; so the tail is the least recently
\* touched key, and such a touch leaves its key at the front.
C3_OrderIsRecencyOfAcceptedTouches ==
    \A p \in Paths :
        (exists(p) /\ ~cret.blocked) =>
            /\ OrderKeys(caches[p]) = touched[p]
            /\ (cret.path = p /\ AcceptedTouch /\ Indexed(caches[p], cret.key))
                  => caches[p].order[1].key = cret.key

\* C3 witness: a Get returned bytes for one of three entries.
C3_Witness ==
    \E p \in Paths :
        /\ cret.op = "Get" /\ cret.path = p /\ cret.val # Nil
        /\ Len(caches[p].order) = 3
        /\ caches[p].order[1].key = cret.key

\* C3 as claimed: the tail of the order list is the indexed key whose last
\* Add call or successful Get is the oldest.
C3_TailIsLeastRecentlyCalled ==
    \A p \in Paths :
        (exists(p) /\ ~cret.blocked /\ caches[p].order # <<>>) =>
            Back(caches[p].order).key = called[p][Len(called[p])]

\* C4 as claimed: an Add of a new key whose size is below the quota, made
\* when usage + size exceeds the quota and the file system calls succeed,
\* returns with the key stored at the front and usage within the quota.
C4_EvictingAddStores ==
    \A p \in Paths :
        ( /\ cret.op = "Add" /\ cret.path = p /\ cret.io /\ ~cret.pre.had
          /\ cret.pre.quota > 0 /\ Len(cret.data) < cret.pre.quota
          /\ cret.pre.usage + Len(cret.data) > cret.pre.quota )
        => /\ ~cret.blocked
           /\ Indexed(caches[p], cret.key)
           /\ caches[p].order[1].key = cret.key
           /\ caches[p].usage <= caches[p].quota

\* The greater of two quotas, 0 standing for no limit.
GreaterQuota(a, b) == IF a = 0 \/ b = 0 THEN 0 ELSE IF a > b THEN a ELSE b

\* Whether quota a allows everything quota b allows.
AtLeastAsPermissive(a, b) == a = 0 \/ (b # 0 /\ a >= b)

\* C10: a path has at most one FileCache, which once registered stays the
\* registered one; its quota never becomes more restrictive; NewFileCache for
\* a registered path returns that cache with its entries and usage as they
\* were and the quota set to the greater of the old and the new one.
C10_OneCachePerPathQuotaOnlyGrows ==
    /\ [](\A p \in Paths : created[p] <= 1 /\ (exists(p) <=> created[p] = 1))
    /\ [][\A p \in Paths : exists(p) =>
            /\ caches'[p].id = caches[p].id
            /\ AtLeastAsPermissive(caches'[p].quota, caches[p].quota)
            /\ (cret'.op = "NewFileCache" /\ cret'.path = p) =>
                  /\ cret'.val = <<caches[p].id>>
                  /\ caches'[p] = [caches[p] EXCEPT
                                     !.quota = GreaterQuota(@, cret'.quota)]
                  /\ disk'[p] = disk[p]
         ]_cacheVars

\* C10 witness: NewFileCache with quota 0 was called for a cache that had
\* quota 3 and an entry, and returned that cache, now without limit.
C10_Witness ==
    \E p \in Paths :
        /\ cret.op = "NewFileCache" /\ cret.path = p
        /\ cret.pre.quota = 3 /\ cret.quota = 0 /\ caches[p].quota = 0
        /\ caches[p].usage = 1
        /\ cret.val = <<caches[p].id>>

\* ------------------------------------------------------------------------
\* Claims about the Source (checked under SourceSpec)
\* ------------------------------------------------------------------------

\* Whether the goroutine has come back from the call op to its caller.
Returned(th, op) == th.op = op /\ th.pc = th.cont

\* C5: while a Put(name, data) runs that shares name with no other Put, the
\* bucket holds under name what it held when the Put started or all of data;
\* and every change of a final key is the copy of name + ".tmp" made by a
\* Put for that name whose upload has returned success.
C5_FinalKeyWrittenOnlyByCopyAfterUpload ==
    /\ [](\A t \in Threads : \A n \in Names :
            (InPut(thr[t], n) /\ ~thr[t].shared)
                => bucket[n] \in {thr[t].prev, thr[t].data})
    /\ [][\A n \in Names : bucket'[n] # bucket[n] =>
            \E t \in Threads :
                /\ InPut(thr[t], n)
                /\ thr[t].pc = "Put.copy" /\ thr'[t].pc = "Put.del"
                /\ thr[t].uploaded
                /\ bucket'[n] = bucket[Tmp(n)]
         ]_vars

\* C5 witness: a Put on its own has copied its data over an older object and
\* has yet to delete the temporary object.
C5_Witness ==
    \E t \in Threads :
        /\ thr[t].op = "Put" /\ thr[t].pc = "Put.del" /\ ~thr[t].shared
        /\ thr[t].prev \in Images /\ thr[t].prev # thr[t].data
        /\ bucket[thr[t].name] = thr[t].data
        /\ bucket[Tmp(thr[t].name)] = thr[t].data

\* C8, as far as it holds: a Get that found the bytes in the cache returns
\* them and has not contacted the bucket; a Get that did not has read the
\* bucket; after an error of the bucket it returns the error and has not
\* called Add; after a successful read it has called Add and returns the
\* bytes read, if it returns.
GetReturnsAsRead ==
    attached => \A t \in Threads : Returned(thr[t], "Get") =>
        /\ thr[t].cgot # Nil => thr[t].res = thr[t].cgot /\ ~thr[t].contacted
        /\ thr[t].cgot = Nil => thr[t].contacted
        /\ (thr[t].contacted /\ thr[t].data = Nil) =>
                thr[t].res = Err /\ ~thr[t].added
        /\ (thr[t].contacted /\ thr[t].data # Nil) =>
                thr[t].res = thr[t].data /\ thr[t].added

\* C8: no Get with a cache attached that has read the bytes from the bucket
\* is left waiting inside the Add that is to store them: it returns them.
C8_BytesReadAreCachedAndReturned ==
    attached => \A t \in Threads :
        ~(thr[t].op = "Get" /\ thr[t].pc = "blocked" /\ thr[t].data \in Images)

\* ------------------------------------------------------------------------
\* Claims about Ico.Process (checked under Spec)
\* ------------------------------------------------------------------------

\* C6: a handler whose Get(procPath) has returned data goes on to write
\* exactly that data and to return; and a handler that has answered from the
\* stored artifact has the bytes Get took from the cache or the bucket as
\* its response, has parsed no parameters, fetched no original, run no
\* pipeline and made no Put, neither itself nor in a goroutine.
C6_StoredArtifactIsServedAsIs ==
    /\ [](\A t \in Handlers : thr[t].hit =>
            /\ thr[t].pc = "exit"
            /\ thr[t].resp = thr[t].res
            /\ thr[t].resp = (IF thr[t].cgot # Nil THEN thr[t].cgot
                              ELSE thr[t].data)
            /\ thr[t].resp \in Images
            /\ ~thr[t].parsed /\ ~thr[t].fetched /\ ~thr[t].ran
            /\ thr[t].put = "none" /\ thr[t].op = "Get"
            /\ thr[t].name = ProcPath(thr[t].image, thr[t].params)
            /\ thr[Putter(thr[t].req)].pc = "unused")
    /\ [][\A t \in Handlers :
            (thr[t].pc = "Process.got" /\ thr[t].res \in Images
                /\ thr'[t] # thr[t])
            => thr'[t] = [thr[t] EXCEPT !.pc = "exit", !.hit = TRUE,
                                        !.resp = thr[t].res]
         ]_vars

\* C6 witness: the second request was answered with the artifact found in
\* the local cache, where the first request's Put had stored it.
C6_Witness ==
    \E t \in Handlers :
        /\ thr[t].hit /\ thr[t].req = 2
        /\ thr[t].cgot = Processed(Original, ValidParams)
        /\ thr[t].resp = thr[t].cgot
        /\ thr[1].ran

C9_OneSourcePerKey ==
    /\ Cardinality(made) <= 1
    /\ \A t, u \in Handlers :
          (thr[t].src # 0 /\ thr[u].src # 0) => thr[t].src = thr[u].src

\* ------------------------------------------------------------------------
\* Claims about single FileCache calls (checked under CacheSpec)
\* ------------------------------------------------------------------------

\* Whether the step is the call op of the caller, on the cache under p.
IsCall(op, p) == cret'.op = op /\ cret'.path = p

\* Whether the Add of the step had data as large as the quota or larger.
AddWasRefused == cret'.pre.quota > 0 /\ Len(cret'.data) >= cret'.pre.quota

\* C11: an Add of data as large as the quota (> 0) or larger returns and
\* leaves the cache (order, index, usage, quota) and every file as they were.
C11_RefusedAddChangesNothing ==
    [][\A p \in Paths : (IsCall("Add", p) /\ AddWasRefused) =>
            /\ caches'[p] = caches[p]
            /\ disk'[p] = disk[p]
            /\ ~cret'.blocked
      ]_vars

\* C11 witness: data of 3 bytes was offered for a key that is indexed with
\* other bytes in a cache of quota 3 that holds two entries, the key not
\* being at the front, and the file system would have taken the write.
C11_Witness ==
    \E p \in Paths :
        /\ cret.op = "Add" /\ cret.path = p /\ cret.io
        /\ cret.pre.quota = 3 /\ Len(cret.data) = 3 /\ cret.pre.had
        /\ Len(caches[p].order) = 2
        /\ caches[p].order[2].key = cret.key
        /\ disk[p][cret.key] # cret.data

\* What is true of every Add for an indexed key: the files, the index with
\* the recorded sizes, usage and quota stay, no key joins or leaves the
\* order list and the other keys keep their order.
ReAddFrame(p) ==
    /\ disk'[p] = disk[p]
    /\ caches'[p].cache = caches[p].cache
    /\ caches'[p].usage = caches[p].usage
    /\ caches'[p].quota = caches[p].quota
    /\ SeqWithout(caches'[p].order, cret'.key) = SeqWithout(caches[p].order, cret'.key)
    /\ Len(caches'[p].order) = Len(caches[p].order)
    /\ ~cret'.blocked

\* C12 (amended): an Add for an indexed key with data smaller than the quota
\* (or with no quota) moves the entry to the front and changes nothing else,
\* whatever the data and however little quota is free; an Add with data as
\* large as the quota or larger does not even move it.
C12_ReAddOnlyPromotesUnlessRefused ==
    [][\A p \in Paths : (IsCall("Add", p) /\ cret'.pre.had) =>
            /\ ReAddFrame(p)
            /\ caches'[p].order =
                  IF AddWasRefused THEN caches[p].order
                  ELSE MoveToFront(caches[p].order, caches[p].cache[cret'.key])
      ]_vars

\* C12 witness: an entry that was not at the front was added again with
\* other data, larger than the free quota, and is now at the front with its
\* file as it was.
C12_Witness ==
    \E p \in Paths :
        /\ cret.op = "Add" /\ cret.path = p /\ cret.pre.had /\ cret.io
        /\ cret.pre.quota = 5 /\ Len(cret.data) = 3 /\ cret.pre.usage = 4
        /\ Len(caches[p].order) = 2
        /\ caches[p].order[1].key = cret.key
        /\ disk[p][cret.key] = <<1>>
        /\ touched[p] = called[p]

\* C12 as claimed: every Add for an indexed key leaves the entry at the
\* front and changes nothing else.
C12_ReAddAlwaysPromotes ==
    [][\A p \in Paths : (IsCall("Add", p) /\ cret'.pre.had) =>
            /\ ReAddFrame(p)
            /\ caches'[p].order[1].key = cret'.key
      ]_vars

C14_GetAdmitsFileOnDisk ==
    \A p \in Paths :
        ( /\ cret.op = "Get" /\ cret.path = p /\ cret.io
          /\ ~cret.pre.had /\ disk[p][cret.key] # NoFile )
        => /\ cret.val = disk[p][cret.key]
           /\ Indexed(caches[p], cret.key)
           /\ caches[p].order[1].key = cret.key
           /\ caches[p].usage = cret.pre.usage + Len(cret.val)

\* Whether the last call was an Add of a new key, not refused for its size,
\* whose MkdirAll or WriteFile fails.
FailingAdd(p) ==
    /\ cret.op = "Add" /\ cret.path = p /\ ~cret.io /\ ~cret.pre.had
    /\ ~(cret.pre.quota > 0 /\ Len(cret.data) >= cret.pre.quota)

\* What C15 says of an Add that returns: the key is not indexed nor in the
\* order list, and usage is the sum of the sizes of the entries.
FailedWriteLeavesNoEntry ==
    \A p \in Paths : (FailingAdd(p) /\ ~cret.blocked) =>
        /\ ~Indexed(caches[p], cret.key)
        /\ \A i \in 1..Len(caches[p].order) : caches[p].order[i].key # cret.key
        /\ caches[p].usage = SumSizes(caches[p], Keys)

\* C15: an Add whose write fails returns, also when entries had to be
\* evicted before the write, with the key neither indexed nor in the order
\* list and usage the sum of the sizes of the entries left.
C15_FailedWriteIsSilentNoOp ==
    \A p \in Paths : FailingAdd(p) =>
        /\ ~cret.blocked
        /\ ~Indexed(caches[p], cret.key)
        /\ \A i \in 1..Len(caches[p].order) : caches[p].order[i].key # cret.key
        /\ caches[p].usage = SumSizes(caches[p], Keys)

\* ------------------------------------------------------------------------
\* Claims about Source.Put (checked under SourceSpec)
\* ------------------------------------------------------------------------

\* The steps of a Put follow one another in the order of the code: the Add
\* to the cache, the upload of name + ".tmp", the copy to name, the delete
\* of name + ".tmp"; a failed upload or copy ends the call, and only the
\* upload and the delete change the temporary object, only the copy the
\* final one.
PutStepsInOrder ==
    [][\A t \in Threads :
          (thr[t].op = "Put" /\ thr[t].pc # thr[t].cont /\ thr'[t].pc # thr[t].pc) =>
             /\ <<thr[t].pc, thr'[t].pc>> \in
                    {<<"Put.add", "Put.upload">>, <<"Put.add", "blocked">>,
                     <<"Put.upload", "Put.copy">>, <<"Put.upload", thr[t].cont>>,
                     <<"Put.copy", "Put.del">>, <<"Put.copy", thr[t].cont>>,
                     <<"Put.del", thr[t].cont>>}
             /\ thr[t].pc = "Put.add" => bucket' = bucket
             /\ thr[t].pc \in {"Put.upload", "Put.del"} =>
                    \A n \in ObjectKeys \ {Tmp(thr[t].name)} : bucket'[n] = bucket[n]
             /\ thr[t].pc = "Put.copy" =>
                    \A n \in ObjectKeys \ {thr[t].name} : bucket'[n] = bucket[n]
      ]_vars

\* When a Put that shared its name with no other Put returns after an
\* upload, a copy and a delete that all succeeded, the bucket holds its data
\* under name and nothing under name + ".tmp".
PutAloneStoresData ==
    [][\A t \in Threads :
          ( /\ thr[t].op = "Put" /\ thr[t].pc = "Put.del"
            /\ thr'[t].pc = thr[t].cont
            /\ ~thr'[t].fault /\ ~thr'[t].shared ) =>
             /\ thr'[t].res = Ok
             /\ bucket'[thr[t].name] = thr[t].data
             /\ bucket'[Tmp(thr[t].name)] = NoFile
      ]_vars

\* No Get has read from the bucket the object under the name + ".tmp" of a
\* name that is Put.
TmpNeverRead ==
    \A t \in Threads :
        ~( /\ thr[t].op = "Get"
           /\ thr[t].name \in {Tmp(n) : n \in Called}
           /\ thr[t].data \in Images )

\* C17: the steps of a Put run in the order add, upload of name + ".tmp",
\* copy to name, delete of name + ".tmp"; a Put whose steps all succeed
\* leaves its data under name and nothing under name + ".tmp"; and no Get
\* reads an object under a name + ".tmp".
C17_PutInOrderAndTmpNeverRead ==
    /\ PutStepsInOrder
    /\ PutAloneStoresData
    /\ []TmpNeverRead

\* Whether t and u are two Puts for the same name that ran at the same time,
\* sharing name + ".tmp".
PutTogether(t, u) ==
    /\ t # u
    /\ thr[t].op = "Put" /\ thr[u].op = "Put"
    /\ thr[t].name = thr[u].name
    /\ thr[t].shared /\ thr[u].shared

\* The goroutines whose last call is a Put for the name.
PutsFor(name) == {v \in Threads : thr[v].op = "Put" /\ thr[v].name = name}

\* Whether every call made so far is the last call of its goroutine.
NoCallForgotten ==
    calls = Cardinality({v \in Threads : thr[v].op # "-"})

\* C18: while and after Puts for the same name run at the same time, the
\* bucket holds under the name what it held when one of the Puts for the
\* name started or the whole data of one of them; once they have all
\* returned, the store having answered every upload, copy and delete, it
\* holds the whole data of one of them.
C18_ConcurrentPutsLeaveOnePayload ==
    \A t, u \in Threads : (PutTogether(t, u) /\ NoCallForgotten) =>
        LET puts == PutsFor(thr[t].name)
        IN  /\ bucket[thr[t].name] \in
                    {thr[v].prev : v \in puts} \cup {thr[v].data : v \in puts}
            /\ (\A v \in puts : Returned(thr[v], "Put") /\ ~thr[v].fault)
                => bucket[thr[t].name] \in {thr[v].data : v \in puts}

\* C18 witness: two Puts for the same name with different data ran at the
\* same time and have both returned, the store having answered every step;
\* one of them returned nil while the bucket holds the data of the other,
\* whose copy found the temporary object gone.
C18_Witness ==
    \E t, u \in Threads :
        /\ PutTogether(t, u)
        /\ thr[t].data # thr[u].data
        /\ Returned(thr[t], "Put") /\ Returned(thr[u], "Put")
        /\ ~thr[t].fault /\ ~thr[u].fault
        /\ thr[t].res = Ok /\ thr[u].res = Err
        /\ bucket[thr[t].name] = thr[u].data
        /\ bucket[Tmp(thr[t].name)] = NoFile

\* ------------------------------------------------------------------------
\* Claims about requests that follow one another (checked under Spec)
\* ------------------------------------------------------------------------

\* C19: a request for the default source that arrives after a GET request
\* for the same image and parameters was answered with a newly made image
\* finds the image in the local cache: its Get of the derived key returns
\* bytes, taken from the cache and not from the bucket, and the handler does
\* not go on to parse the parameters and run the pipeline.
C19_LaterRequestHitsLocalCache ==
    \A t \in Handlers :
        (thr[t].later /\ thr[t].pc \in {"Process.got", "exit"}) =>
            /\ thr[t].cgot # Nil
            /\ ~thr[t].contacted
            /\ ~thr[t].parsed

\* ------------------------------------------------------------------------
\* Claims about the derived key (checked under PathSpec)
\* ------------------------------------------------------------------------

\* Whether the request is a plain one: its params are neither "." nor "..",
\* and its image path has no empty segment, so no doubled or final slash.
Plain(r) ==
    /\ r.params \notin {Seg("."), Seg("..")}
    /\ \A i \in 1..Len(r.image) : r.image[i] # Seg("")

\* What C20 says of the k-th request: the derived key is the directory of
\* the image, the params and the file name of the image in this order, it
\* is not the key of the image, and a request with the same derived key is
\* the same request.
DerivedKeyAsClaimed(k) ==
    LET key == procPath[k].key
    IN  /\ key = Inserted(request[k].image, request[k].params)
        /\ Len(key) = Len(request[k].image) + 1
        /\ SubSeq(key, 1, Len(key) - 2) = Dir(request[k].image)
        /\ key[Len(key) - 1] = request[k].params
        /\ key[Len(key)] = File(request[k].image)
        /\ key # request[k].image
        /\ \A j \in {1, 2} : procPath[j] = procPath[k] => request[j] = request[k]

\* The derived keys of plain requests are as C20 says, also among the
\* derived keys of requests that are not plain.
PlainRequestsAsClaimed ==
    \A k \in {1, 2} :
        ( /\ procPath[k].set
          /\ Plain(request[k])
          /\ \A j \in {1, 2} : procPath[j].set => Plain(request[j]) )
        => DerivedKeyAsClaimed(k)

\* C20: the derived key of every request is dirname/params/basename of its
\* image path; params and image path can be read back from it, two requests
\* with the same derived key are the same request, and the derived key is
\* not the image path.
C20_DerivedKeyIsReversible ==
    \A k \in {1, 2} : procPath[k].set => DerivedKeyAsClaimed(k)

\* ------------------------------------------------------------------------
\* Claims about Purge and about failures of the store (checked under Spec)
\* ------------------------------------------------------------------------

\* The image and, for every directory next to it under which the bucket b
\* holds an object, the file of the image's name in that directory.
PurgeSet(b, image) ==
    {image} \cup
    {Dir(image) \o <<SubDirs[i]>> \o <<File(image)>> :
        i \in {j \in 1..Len(SubDirs) :
                    HasObjectsUnder(b, Dir(image) \o <<SubDirs[j]>>)}}

\* The elements of a list.
Range(list) == {list[i] : i \in 1..Len(list)}

ReadFailureIsAnswered ==
    \A t \in Handlers : thr[t].pc = "exit" =>
        /\ (thr[t].fetched /\ thr[t].op = "Get" /\ thr[t].res = Err) =>
                /\ thr[t].resp = Err /\ ~thr[t].ran /\ thr[t].put = "none"
        /\ thr[t].put = "async" => thr[t].resp = thr[t].img

\* C22: a request whose read of the original failed, and a request of
\* another method than GET whose own Put failed, have ended with the error
\* (400 and the message); a GET request whose Put runs in a goroutine has
\* ended with the image.
C22_StoreFailuresAreAnswered ==
    /\ ReadFailureIsAnswered
    /\ \A t \in Handlers :
          (thr[t].pc = "exit" /\ thr[t].put = "sync" /\ thr[t].res = Err)
              => thr[t].resp = Err

\* ------------------------------------------------------------------------
\* Claims about the construction of a pipeline (checked under PipeSpec)
\* ------------------------------------------------------------------------

\* Field i of the parameter string s is key=value, whatever comes after.
IsAssignment(s, i) == Len(s[i]) >= 2

\* The parameter string s gives key a number greater than 0.
NamesPositive(s, key) ==
    \E i \in 1..Len(s) :
        /\ IsAssignment(s, i)
        /\ s[i][1] = <<key>>
        /\ s[i][2][1] \in Numerals
        /\ IntValue(s[i][2][1]) > 0

\* The parameter string s gives key nothing but 0, if it names it at all.
NamesZeroOnly(s, key) ==
    \A i \in 1..Len(s) :
        (IsAssignment(s, i) /\ s[i][1] = <<key>>) => s[i][2] = <<"0">>

HasResize(p) == \E i \in 1..Len(p.operations) : p.operations[i].op = "Resize"

Built(k) == pipelines[k].built /\ ~pipelines[k].err
Rejected(k) == pipelines[k].built /\ pipelines[k].err

\* What holds of NewResize: a pipeline built from parameters whose width and
\* height are left out or 0 has no Resize operation.
ZeroBoundsAreSkipped ==
    \A k \in {1, 2} :
        ( /\ Built(k)
          /\ NamesZeroOnly(paramStrings[k], "width")
          /\ NamesZeroOnly(paramStrings[k], "height") )
        => ~HasResize(pipelines[k])

\* C23: a pipeline built from a parameter string that has neither a width
\* nor a height greater than 0 contains no Resize operation.
C23_NoResizeWithoutPositiveBound ==
    \A k \in {1, 2} :
        ( /\ Built(k)
          /\ ~NamesPositive(paramStrings[k], "width")
          /\ ~NamesPositive(paramStrings[k], "height") )
        => ~HasResize(pipelines[k])

\* No key is assigned twice in the parameter string s.
NoKeyRepeated(s) ==
    \A i, j \in 1..Len(s) : (i # j) => s[i][1] # s[j][1]

\* The operations of p are in the order of their registration: the
\* initialisers they come from are a subsequence of `operations`.
Initialiser(o) == CASE o.op = "Resize" -> "NewResize"

InRegistrationOrder(p) ==
    \E pos \in [1..Len(p.operations) -> 1..Len(operations)] :
        /\ \A i \in 1..Len(p.operations) :
              operations[pos[i]] = Initialiser(p.operations[i])
        /\ \A i, j \in 1..Len(p.operations) : (i < j) => pos[i] < pos[j]

\* Process has applied the operations of the first pipeline in their order:
\* the vips operations on record are those of the operations, one after
\* the other.
RECURSIVE StepsOf(_, _, _)
StepsOf(ops, i, img) ==
    IF i > Len(ops) THEN <<>>
    ELSE LET a == ResizeProcess(ops[i].r, img)
         IN  a.steps \o (IF a.err THEN <<>> ELSE StepsOf(ops, i + 1, a.image))

AppliedInOrder ==
    (processed.done /\ ~processed.err) =>
        processed.steps = StepsOf(pipelines[1].operations, 1, picture)

\* The two parameter strings, which are orderings of the same fields, have
\* been given to New and have built the same: the same error, or the same
\* operations with the same settings.
SamePipeline ==
    (pipelines[1].built /\ pipelines[2].built) => pipelines[1] = pipelines[2]

OperationsInOrder ==
    /\ \A k \in {1, 2} : Built(k) => InRegistrationOrder(pipelines[k])
    /\ AppliedInOrder

\* C24 as stated: the operations of a pipeline are in registration order,
\* Process applies them in that order, and two orderings of the same
\* key=value pairs build the same operations with the same settings.
C24_OrderOfParametersIsIrrelevant ==
    /\ OperationsInOrder
    /\ SamePipeline

\* C24, amended: the same, for parameter strings that assign no key twice.
C24_OrderIsIrrelevantWithoutRepeatedKeys ==
    /\ OperationsInOrder
    /\ NoKeyRepeated(paramStrings[1]) => SamePipeline

\* Two different orderings of two assignments to different keys have built
\* a pipeline with a Resize, and the first has processed the image.
C24_Witness ==
    /\ paramStrings[1] # paramStrings[2]
    /\ NoKeyRepeated(paramStrings[1])
    /\ Built(1) /\ Built(2)
    /\ HasResize(pipelines[1])
    /\ processed.done /\ processed.steps # <<>>

\* The keys of the Resize struct's tags.
SchemaKeys == {WidthTag.name, HeightTag.name, KindTag.name}

HasUnknownKey(s) == \E i \in 1..Len(s) : s[i][1] \notin SchemaKeys

\* C25: a parameter string with a key outside the schema is refused by New,
\* whatever else it contains.
C25_UnknownKeyIsRejected ==
    \A k \in {1, 2} :
        (pipelines[k].built /\ HasUnknownKey(paramStrings[k]))
            => pipelines[k].err

\* What holds of Parse: the empty string and a string with a field without
\* "=" are refused.
MissingEqualsIsRejected ==
    \A k \in {1, 2} :
        ( /\ pipelines[k].built
          /\ \/ paramStrings[k] = <<>>
             \/ \E i \in 1..Len(paramStrings[k]) :
                    Len(paramStrings[k][i]) < 2 )
        => pipelines[k].err

\* C26: the empty string is refused, and so is every string with a field
\* that does not have exactly one "=".
C26_ExactlyOneEquals ==
    \A k \in {1, 2} :
        ( /\ pipelines[k].built
          /\ \/ paramStrings[k] = <<>>
             \/ \E i \in 1..Len(paramStrings[k]) :
                    Len(paramStrings[k][i]) # 2 )
        => pipelines[k].err

\* The settings the documentation gives for a value of fit; X and Y are
\* given for a point with coordinates only.
Documented(kind, gravity) ==
    [known |-> TRUE, Kind |-> kind, Gravity |-> gravity, point |-> FALSE,
     X |-> 0, Y |-> 0]

Undocumented ==
    [known |-> FALSE, Kind |-> "", Gravity |-> "", point |-> FALSE,
     X |-> 0, Y |-> 0]

Gravities == {"top", "bottom", "left", "right", "center", "point"}

DocumentedFit(v) ==
    IF v = <<"clip">> THEN Documented("clip", "")
    ELSE IF v = <<"crop">> THEN Documented("crop", "center")
    ELSE IF Len(v) = 2 /\ v[1] = "crop" /\ v[2] \in Gravities
    THEN Documented("crop", v[2])
    ELSE IF Len(v) = 4 /\ v[1] = "crop" /\ v[2] = "point"
                /\ v[3] \in Numerals /\ v[4] \in Numerals
    THEN [Documented("crop", "point") EXCEPT
                !.point = TRUE, !.X = IntValue(v[3]), !.Y = IntValue(v[4])]
    ELSE Undocumented

\* The parameter string s is one fit and one width that asks for a Resize.
FitWithWidth(s) ==
    /\ Len(s) = 2
    /\ \E i \in {1, 2} :
          /\ s[i][1] = <<"fit">>
          /\ s[3 - i] \in {Field("width", <<"400">>), Field("width", <<"500">>)}

FitIn(s) == IF s[1][1] = <<"fit">> THEN s[1][2] ELSE s[2][2]

UnpackedAsDocumented(p, d) ==
    /\ ~p.err
    /\ HasResize(p)
    /\ LET r == p.operations[1].r
       IN  /\ r.Kind = d.Kind
           /\ (d.Kind = "crop") => r.Gravity = d.Gravity
           /\ d.point => (r.X = d.X /\ r.Y = d.Y)

\* What holds of the fit parameter: crop, crop with the gravities top,
\* bottom, left, right and point, and crop:point:x:y are unpacked as
\* documented, and the kind fill and the gravity middle are refused.
FitsHandledAsDocumented ==
    {<<"crop">>, <<"crop", "top">>, <<"crop", "bottom">>, <<"crop", "left">>,
     <<"crop", "right">>, <<"crop", "point">>, <<"crop", "point", "1", "2">>,
     <<"crop", "middle">>, <<"fill">>}

OtherFitValuesAreAsDocumented ==
    \A k \in {1, 2} :
        ( /\ pipelines[k].built
          /\ FitWithWidth(paramStrings[k])
          /\ FitIn(paramStrings[k]) \in FitsHandledAsDocumented )
        => LET d == DocumentedFit(FitIn(paramStrings[k]))
           IN  IF d.known THEN UnpackedAsDocumented(pipelines[k], d)
               ELSE pipelines[k].err

\* C27: every documented value of fit is accepted and unpacked as
\* documented, and every other value of fit is refused.
C27_FitValuesAsDocumented ==
    \A k \in {1, 2} :
        (pipelines[k].built /\ FitWithWidth(paramStrings[k]))
        => LET d == DocumentedFit(FitIn(paramStrings[k]))
           IN  IF d.known THEN UnpackedAsDocumented(pipelines[k], d)
               ELSE pipelines[k].err

\* ------------------------------------------------------------------------
\* Claims about Resize (checked under PipeSpec)
\* ------------------------------------------------------------------------

\* The Resize of the first pipeline, which has processed the image.
Resized == Built(1) /\ HasResize(pipelines[1]) /\ processed.done

TheResize == pipelines[1].operations[1].r

\* The requested width and height are both at least the source's.
NothingToShrink ==
    /\ Resized
    /\ TheResize.Width >= picture.w
    /\ TheResize.Height >= picture.h

\* What holds of the fast path: Resize applies no shrink, affine or crop,
\* and the image written has the type and the dimensions of the source.
FastPathAppliesNothing ==
    NothingToShrink =>
        /\ processed.steps = <<>>
        /\ processed.image.type = picture.type
        /\ processed.image.w = picture.w
        /\ processed.image.h = picture.h

\* C29: when the requested width and height are at least the source's, no
\* shrink, affine or crop is applied and the bytes that come out of the
\* pipeline are the bytes that went in.
C29_FastPathReturnsInputBytes ==
    NothingToShrink =>
        /\ ~processed.err
        /\ processed.steps = <<>>
        /\ processed.image = picture

\* A Resize with both bounds positive and within the source, and fit clip.
Clips ==
    /\ Resized
    /\ ~processed.err
    /\ TheResize.Kind = "clip"
    /\ TheResize.Width > 0 /\ TheResize.Height > 0
    /\ TheResize.Width <= picture.w
    /\ TheResize.Height <= picture.h

\* The ratio f is the larger of W/w and H/h.
IsLargerDelta(f, W, w, H, h) ==
    /\ f.n * w >= W * f.d
    /\ f.n * h >= H * f.d
    /\ (f.n * w = W * f.d) \/ (f.n * h = H * f.d)

Abs(n) == IF n < 0 THEN 0 - n ELSE n

\* The dimensions of out are in the proportion of W to H, as nearly as
\* whole pixels allow.
KeepsAspect(out, W, H) == Abs(out.w * H - out.h * W) < W + H

QualityOutOfRange(params) ==
    /\ Len(params) = 1
    /\ Len(params[1]) = 2
    /\ params[1][1] = "quality"
    /\ params[1][2] \in Numerals
    /\ IntValue(params[1][2]) \notin 1..100

\* C28: a request whose quality is outside 1..100 ends, once its options
\* are looked at, with an error that names the field quality and the limits
\* 1 and 100; the original is not fetched, no image is processed, and no Put
\* is made, neither by the handler nor by a goroutine started for it.
C28_QualityOutOfRangeIsRejected ==
    \A t \in Handlers :
        (thr[t].parsed /\ QualityOutOfRange(thr[t].params)) =>
            /\ thr[t].pc = "exit"
            /\ thr[t].resp = Err
            /\ thr[t].error.kind = "outside the limit"
            /\ thr[t].error.field = "quality"
            /\ thr[t].error.min = 1
            /\ thr[t].error.max = 100
            /\ thr[t].error.value = thr[t].params[1][2]
            /\ ~thr[t].fetched
            /\ ~thr[t].ran
            /\ thr[t].img = Nil
            /\ thr[t].put = "none"
            /\ thr[Putter(thr[t].req)].pc = "unused"

\* Two requests have been refused, one for a quality below the limits and
\* one for a quality above them.
C28_Witness ==
    \E t, u \in Handlers :
        /\ thr[t].pc = "exit" /\ thr[t].parsed /\ thr[t].params = LowQuality
        /\ thr[u].pc = "exit" /\ thr[u].parsed /\ thr[u].params = HighQuality
        /\ thr[t].error.kind = "outside the limit"
        /\ thr[u].error.kind = "outside the limit"

\* ------------------------------------------------------------------------
\* Claims about cropping (checked under PipeSpec)
\* ------------------------------------------------------------------------

\* A Resize with both bounds positive and within the source, and fit crop,
\* of an image of a type the pipeline writes.
Crops ==
    /\ Resized
    /\ CanWrite(picture)
    /\ TheResize.Kind = "crop"
    /\ TheResize.Width > 0 /\ TheResize.Height > 0
    /\ TheResize.Width <= picture.w
    /\ TheResize.Height <= picture.h

\* The ratio f is the smaller of W/w and H/h.
IsSmallerDelta(f, W, w, H, h) ==
    /\ f.n * w <= W * f.d
    /\ f.n * h <= H * f.d
    /\ (f.n * w = W * f.d) \/ (f.n * h = H * f.d)

\* C31: for a crop to w x h within a W x H source the resize factor is
\* min(W/w, H/h) and the output is exactly w x h, whatever the gravity;
\* 500x1000 cropped to 400x400 gives 400x400.
C31_CropGivesExactlyTheBounds ==
    Crops =>
        LET r == TheResize
            out == processed.image
        IN  /\ ~processed.err
            /\ IsSmallerDelta(resizeFactor(r, picture),
                              picture.w, r.Width, picture.h, r.Height)
            /\ out.w = r.Width
            /\ out.h = r.Height

\* A 500x1000 source has been cropped to 400x400 after an affine, about a
\* gravity other than the default.
C31_Witness ==
    /\ Crops
    /\ picture.w = 500 /\ picture.h = 1000
    /\ TheResize.Width = 400 /\ TheResize.Height = 400
    /\ TheResize.Gravity = "bottom"
    /\ processed.steps = <<"affine", "crop">>
    /\ processed.image.w = 400 /\ processed.image.h = 400

\* C40: every area Resize asks ico_image_crop for lies inside the image and
\* is not empty, whatever the source, the bounds (one of them alone too),
\* the gravity and the focal point.
C40_CropAreaIsInsideTheImage ==
    (processed.done /\ processed.area.issued)
        => /\ processed.area.x >= 0
           /\ processed.area.y >= 0
           /\ processed.area.w >= 1
           /\ processed.area.h >= 1
           /\ processed.area.x + processed.area.w <= processed.area.W
           /\ processed.area.y + processed.area.h <= processed.area.H

\* ------------------------------------------------------------------------
\* Claims about the handlers' pipeline (checked under ImagerSpec)
\* ------------------------------------------------------------------------

\* The fields the pipeline was given, once it is built without an error.
Asked == pipelines[1].operations[1].r

Ran ==
    /\ pipelines[1].built
    /\ ~pipelines[1].err
    /\ processed.done

\* The offsets the documentation gives for a gravity, on a resized image of
\* W by H and a target of w by h.
DocumentedOffsets(gravity, W, H, w, h) ==
    CASE gravity = "center" -> <<Quotient(W - w, 2), Quotient(H - h, 2)>>
      [] gravity = "top" -> <<Quotient(W - w, 2), H - h>>
      [] gravity = "bottom" -> <<Quotient(W - w + 1, 2), 0>>
      [] gravity = "left" -> <<W - w, Quotient(H - h, 2)>>
      [] gravity = "right" -> <<0, Quotient(H - h + 1, 2)>>

TopOfPortrait ==
    /\ Ran
    /\ picture.w = 500 /\ picture.h = 1000
    /\ Asked.Width = 400 /\ Asked.Height = 400
    /\ Asked.Fit = "crop" /\ Asked.Crop = "top"

\* C32: the offsets of the crop are those documented for the gravity
\* (center, top, bottom, left, right, with integer division), and
\* width=400,height=400,fit=crop with crop=top on 500x1000 removes the top
\* 200 rows.
C32_CropOffsetsAsDocumented ==
    /\ (Ran /\ processed.area.issued
            /\ Asked.Crop \in {"center", "top", "bottom", "left", "right"})
           => <<processed.area.x, processed.area.y>>
                  = DocumentedOffsets(Asked.Crop, processed.area.W,
                                      processed.area.H, processed.area.w,
                                      processed.area.h)
    /\ TopOfPortrait
           => /\ processed.area.issued
              /\ processed.area.y = 200
              /\ processed.image.w = 400 /\ processed.image.h = 400

\* C33: whenever processing succeeds the output is of the kind of the input:
\* JPEG gives JPEG, PNG gives PNG, GIF gives GIF, also with frame=true.
C33_OutputKindIsInputKind ==
    (Ran /\ ~processed.err) => processed.image.type = picture.type

\* C34: width=500,fit=crop, with no height, on a 1000x500 JPEG gives a
\* 500x500 JPEG.
C34_WidthOnlyCropIsSquare ==
    (/\ Ran
     /\ paramStrings[1] = <<<<"width", "500">>, <<"fit", "crop">>>>
     /\ picture = Picture("jpeg", 1000, 500))
        => /\ ~processed.err
           /\ processed.image.type = "jpeg"
           /\ processed.image.w = 500
           /\ processed.image.h = 500

\* ------------------------------------------------------------------------
\* Claims about the index and the order list (checked under CacheSpec)
\* ------------------------------------------------------------------------

InList(f, el) == \E i \in 1..Len(f.order) : f.order[i] = el

\* The index and the order list hold the same entries, each key once.
OneToOne(f) ==
    /\ \A key \in Keys :
          Indexed(f, key) => InList(f, f.cache[key]) /\ f.cache[key].key = key
    /\ \A i \in 1..Len(f.order) :
          /\ f.order[i].key \in Keys
          /\ f.cache[f.order[i].key] = f.order[i]
    /\ \A i, j \in 1..Len(f.order) :
          f.order[i].key = f.order[j].key => i = j

\* C36: after every completed operation on a FileCache every key of the
\* index points to a node of the order list that carries the key, every node
\* of the list is in the index, and no key is in the list twice.
C36_IndexAndListCorrespond ==
    \A p \in Paths :
        (exists(p) /\ ~cret.blocked) => OneToOne(caches[p])

\* A Remove has taken one of several entries.
C36_Witness ==
    /\ cret.op = "Remove"
    /\ ~cret.blocked
    /\ cret.pre.had
    /\ ~Indexed(caches[cret.path], cret.key)
    /\ Len(caches[cret.path].order) >= 1
    /\ OneToOne(caches[cret.path])

\* C37: every call of Add, Remove and RemoveOldest returns; an Add that has
\* to evict ends its loop and releases the lock.
C37_EveryCallReturns ==
    cret.op \in {"Add", "Remove", "RemoveOldest"} => ~cret.blocked

\* ------------------------------------------------------------------------
\* Claims about the lock of FileCache (checked under LockSpec)
\* ------------------------------------------------------------------------

\* Goroutines that are inside a call that changes the order list or the
\* index.
Mutators ==
    {t \in Handlers : thr[t].pc \in {"Get.moving", "Remove.locked"}}

\* C35: the order list and the index are changed only while the exclusive
\* lock is held: Get promotes the entry under the exclusive lock, and no two
\* Get calls change the order list at the same time.
C35_MutationsHoldTheExclusiveLock ==
    /\ \A t \in Mutators : Locked /\ ~thr[t].rlocked
    /\ \A t, u \in Movers : t = u

\* ------------------------------------------------------------------------
\* Claims about the failing steps of Source.Put (checked under SourceSpec)
\* ------------------------------------------------------------------------

\* The step in which the upload of name + ".tmp" by t fails, and the step
\* after which the Put of t does not go on from the copy to the delete.
UploadFails(t) ==
    /\ thr[t].pc = "Put.upload"
    /\ thr'[t].pc # "Put.upload"
    /\ thr'[t].fault

CopyFails(t) ==
    /\ thr[t].pc = "Put.copy"
    /\ thr'[t].pc \notin {"Put.copy", "Put.del"}

\* Put returns the error to its caller and issues nothing more; the final
\* key, and in the copy step the temporary one, are what they were.
ReturnsTheError(t) ==
    /\ thr'[t].pc = thr[t].cont
    /\ thr'[t].res = Err
    /\ bucket'[thr[t].name] = bucket[thr[t].name]

FailureStepsOfPut(t) ==
    /\ UploadFails(t) => ReturnsTheError(t)
    /\ CopyFails(t) =>
          /\ ReturnsTheError(t)
          /\ bucket'[Tmp(thr[t].name)] = bucket[Tmp(thr[t].name)]

\* The local cache holds the data of the Put under its name.
CacheHolds(name, data) ==
    /\ attached
    /\ Indexed(caches[SourcePath], name)
    /\ disk[SourcePath][name] = data

DerivedKey(t) == ProcPath(thr[t].image, thr[t].params)

\* The request of handler t has missed the stored artifact and has then
\* ended with an error.
FailedAfterMiss(t) ==
    /\ thr[t].pc = "exit"
    /\ thr[t].method # "DELETE"
    /\ thr[t].parsed
    /\ thr[t].resp = Err

\* No Put was started for the request, by the handler or by a goroutine of
\* its own, and no image was made or written back.
NothingStarted(t) ==
    /\ thr[t].put = "none"
    /\ thr[t].op # "Put"
    /\ thr[Putter(thr[t].req)] = NoThread
    /\ thr[t].img = Nil
    /\ ~thr[t].hit

\* Parameters that SetOption refuses end the request before src.Get(imgPath):
\* the last call on the source was the one for the derived key.
ValidatedBeforeFetch(t) ==
    thr[t].error # NoError =>
        /\ ~thr[t].fetched
        /\ ~thr[t].ran
        /\ thr[t].name = DerivedKey(t)

\* A step of handler t that changes what the local cache or the bucket holds
\* under the derived key of its request.
WritesDerived(t) ==
    /\ thr[t].image # <<>>
    /\ thr[t].method # "DELETE"
    /\ thr'[t] # thr[t]
    /\ thr[t].name = DerivedKey(t)
    /\ \/ disk'[SourcePath][DerivedKey(t)] # disk[SourcePath][DerivedKey(t)]
       \/ bucket'[DerivedKey(t)] # bucket[DerivedKey(t)]

\* Such a step belongs to the Put of a request whose pipeline has run, or it
\* caches the stored artifact that Get has found, which is then no miss.
OnlyAfterSuccess(t) ==
    \/ thr[t].op = "Put" /\ thr[t].put = "sync" /\ thr[t].img # Nil
    \/ /\ thr[t].op = "Get" /\ thr[t].pc = "Get.add"
       /\ thr[t].cont = "Process.got"
       /\ thr'[t].pc = "blocked" \/ Found(thr'[t].res)

\* C39: a Process that fails after the miss of the processed artifact
\* (parameters malformed or refused, original not fetched, pipeline error)
\* has started no Put, has written nothing under the derived key in the
\* local cache or the bucket and no image to the client; the parameters are
\* validated before the original is fetched.
C39_FailedProcessStoresNothing ==
    /\ [](\A t \in Handlers :
             FailedAfterMiss(t) => NothingStarted(t) /\ ValidatedBeforeFetch(t))
    /\ [][\A t \in Handlers :
             WritesDerived(t) => OnlyAfterSuccess(t)]_vars

\* The pipeline has failed on the original that was fetched, and, in another
\* request, SetOption has refused the parameters.
C39_Witness ==
    \E t, u \in Handlers :
        /\ FailedAfterMiss(t)
        /\ thr[t].fetched /\ thr[t].ran
        /\ thr[t].error = NoError
        /\ NothingStarted(t)
        /\ FailedAfterMiss(u)
        /\ thr[u].error # NoError
        /\ ~thr[u].fetched

====
